---------------------------- MODULE Spec2Model ----------------------------
(***************************************************************************)
(* A model of the Grace University LMS: the user store, registration and   *)
(* authentication (src/services/auth_service.py, src/models/user.py), the  *)
(* session cookie and the role-gated dashboards (src/controllers), and the *)
(* tables of enrollments, certificates, team members, login tokens,        *)
(* courses, lessons and lesson progress with the methods of their models   *)
(* (src/models), and the dashboard data (src/services/dashboard_service).  *)
(*                                                                         *)
(* Text is a sequence of one-character strings; a missing form field       *)
(* (Python None) is the one-element sequence None.                         *)
(***************************************************************************)
EXTENDS Integers, Sequences, FiniteSets, TLC

VARIABLES
    users,      \* table users: id -> row
    roles,      \* table roles: the set of role names stored
    session,    \* the Flask session of the one browser: key -> value
    req,        \* the call or HTTP request handled last
    resp,       \* its result
    now,        \* datetime.utcnow(), in ticks
    config,     \* the config_name the application was created with
    inflight,   \* per worker: the registration that passed its checks and has
                \* not committed (NoForm: none)
    enrollments,    \* table enrollments: id -> row
    certificates,   \* table certificates: id -> row
    team_members,   \* table team_members: id -> row
    sessions,       \* table sessions (login tokens): id -> row
    courses,        \* table courses: id -> row
    lessons,        \* table lessons: id -> course_id
    pending,        \* per worker: the Certificate.create call that generated
                    \* its number and has not committed (NoPending: none)
    lesson_progress,    \* table lesson_progress: id -> row
    looking         \* per worker: the get_or_create call that found no record
                    \* and has not inserted (NoLook: none)

\* The tables the authentication flow does not touch
tables ==
    <<enrollments, certificates, team_members, sessions, courses, lessons, pending,
      lesson_progress, looking>>

vars == <<users, roles, session, req, resp, now, config, inflight, tables>>

----------------------------------------------------------------------------
(* Bounds of the model *)

MaxClock == 2
MaxWorkers == 2

(* Program constants *)

MinPasswordLen == 8
NoTime == 0

----------------------------------------------------------------------------
(* Text *)

None == <<"None">>

IsNone(s) == s = None

\* Python truthiness of an optional string: None and '' are falsy
Falsy(s) == IsNone(s) \/ s = <<>>

RECURSIVE LStrip(_)
LStrip(s) == IF s # <<>> /\ Head(s) = " " THEN LStrip(Tail(s)) ELSE s

RECURSIVE RStrip(_)
RStrip(s) ==
    IF s # <<>> /\ s[Len(s)] = " " THEN RStrip(SubSeq(s, 1, Len(s) - 1)) ELSE s

\* str.strip()
Strip(s) == RStrip(LStrip(s))

\* c in s
Contains(s, c) == \E i \in 1..Len(s) : s[i] = c

Repeat(c, n) == [i \in 1..n |-> c]

EmailA == <<"a", "@", "x", ".", "c">>
EmailB == <<"b", "@", "x", ".", "c">>
EmailAPadded == <<" ">> \o EmailA \o <<" ">>
Pw == Repeat("p", MinPasswordLen)
PwOther == Repeat("q", MinPasswordLen)
PwShort == Repeat("p", MinPasswordLen - 1)
NameN == <<"N", "a", "m", "e">>

----------------------------------------------------------------------------
(* Password hashing (werkzeug.security) *)

generate_password_hash(password) == [method |-> "scrypt", of |-> password]

check_password_hash(pwhash, password) == pwhash.of = password

----------------------------------------------------------------------------
(* Role names *)

\* Python None where a role name is expected
NoRole == "None"

RolePriority == <<"superuser", "admin", "team_lead", "doorholder">>

SeedRoleNames == {RolePriority[i] : i \in 1..Len(RolePriority)}

----------------------------------------------------------------------------
(* models/user.py *)

\* A row inserted at time t: updated_at gets its default, and its onupdate
\* sets it again in every UPDATE of the row that does not assign it
UserRow(email, password_hash, name, roleNames, t) ==
    [email |-> email, password_hash |-> password_hash, name |-> name,
     roles |-> roleNames, is_active |-> TRUE, last_login |-> NoTime,
     updated_at |-> t]

\* The next primary key: one past the largest rowid in the table
NextId(us) ==
    IF DOMAIN us = {} THEN 1
    ELSE (CHOOSE i \in DOMAIN us : \A j \in DOMAIN us : j <= i) + 1

\* A lookup that filters on nothing it can match, and so never finds a row
get_by_email_never(us, email) == 0

\* User.get_by_email: the id of the row with that email, 0 for not found
get_by_email(us, email) ==
    IF \E i \in DOMAIN us : us[i].email = email
    THEN CHOOSE i \in DOMAIN us : us[i].email = email
    ELSE 0

\* User.get_by_id
get_by_id(us, user_id) == IF user_id \in DOMAIN us THEN user_id ELSE 0

Put(us, i, row) == [j \in DOMAIN us \cup {i} |-> IF j = i THEN row ELSE us[j]]

\* User.create: add, append the roles, commit.  The unique index on email
\* makes the commit fail when the email is stored already.
User_create(us, email, password_hash, name, roleNames, t) ==
    IF \E i \in DOMAIN us : us[i].email = email
    THEN [kind |-> "IntegrityError", users |-> us, id |-> 0]
    ELSE [kind |-> "ok",
          users |-> Put(us, NextId(us), UserRow(email, password_hash, name, roleNames, t)),
          id |-> NextId(us)]

\* User.get_role_names
get_role_names(row) == row.roles

\* The priority list walked from its low end
get_primary_role_lowest(row) ==
    LET user_roles == get_role_names(row)
        held == {i \in 1..Len(RolePriority) :
                    \E k \in 1..Len(user_roles) : user_roles[k] = RolePriority[i]}
    IN  IF held # {}
        THEN RolePriority[CHOOSE i \in held : \A j \in held : i >= j]
        ELSE IF user_roles # <<>> THEN user_roles[1] ELSE NoRole

\* User.get_primary_role: the first name of role_priority the user holds,
\* else the first role held, else None
get_primary_role(row) ==
    LET user_roles == get_role_names(row)
        held == {i \in 1..Len(RolePriority) :
                    \E k \in 1..Len(user_roles) : user_roles[k] = RolePriority[i]}
    IN  IF held # {}
        THEN RolePriority[CHOOSE i \in held : \A j \in held : i <= j]
        ELSE IF user_roles # <<>> THEN user_roles[1] ELSE NoRole

InsertAt(seq, k, x) == SubSeq(seq, 1, k - 1) \o <<x>> \o SubSeq(seq, k, Len(seq))

Without(seq, x) == SelectSeq(seq, LAMBDA y : y # x)

Held(row) == {row.roles[k] : k \in 1..Len(row.roles)}

\* User.add_role: nothing when the role is held already.  The rows of
\* user_roles come back in no promised order: k is where the new one shows.
add_role(us, i, role, k) ==
    IF role \in Held(us[i]) THEN us
    ELSE [us EXCEPT ![i].roles = InsertAt(@, k, role)]

\* User.remove_role
remove_role(us, i, role) == [us EXCEPT ![i].roles = Without(@, role)]

\* User.deactivate, User.activate
set_active(us, i, flag, t) ==
    [us EXCEPT ![i].is_active = flag, ![i].updated_at = t]

\* The timestamp assigned and never committed
update_last_login_lost(us, i, t) == us

\* User.update_last_login
update_last_login(us, i, t) ==
    [us EXCEPT ![i].last_login = t, ![i].updated_at = t]

----------------------------------------------------------------------------
(* services/auth_service.py *)

MsgRequired == "Email and password are required"
MsgInvalid == "Invalid email or password"
MsgInactive == "Account is inactive. Please contact support."
MsgRegRequired == "Email, password, and name are required"
MsgEmailFormat == "Invalid email format"
MsgMismatch == "Passwords do not match"
MsgShort == "Password must be at least 8 characters long"
MsgTaken == "Email already registered"
MsgNoRole == "Default role 'doorholder' not found. Please run seed script."
MsgNotFound == "User with ID not found"
MsgQuickInactive == "Account is inactive"

NoData == [id |-> 0, name |-> None, roles |-> <<>>, primary_role |-> NoRole]

Raise(kind, msg, us) == [kind |-> kind, msg |-> msg, users |-> us, data |-> NoData]

Identity(us, i) ==
    [id |-> i, name |-> us[i].name, roles |-> get_role_names(us[i]),
     primary_role |-> get_primary_role(us[i])]

\* The account status tested before the password
authenticate_user_active_first(us, email, password, t) ==
    LET i == get_by_email(us, email) IN
    IF Falsy(email) \/ Falsy(password) THEN Raise("ValueError", MsgRequired, us)
    ELSE IF i = 0 THEN Raise("ValueError", MsgInvalid, us)
    ELSE IF ~us[i].is_active THEN Raise("ValueError", MsgInactive, us)
    ELSE IF ~check_password_hash(us[i].password_hash, password)
         THEN Raise("ValueError", MsgInvalid, us)
    ELSE [kind |-> "ok", msg |-> "", users |-> update_last_login(us, i, t),
          data |-> Identity(update_last_login(us, i, t), i)]

\* The last login stamped before the account status is tested
authenticate_user_stamp_first(us, email, password, t) ==
    LET i == get_by_email(us, email) IN
    IF Falsy(email) \/ Falsy(password) THEN Raise("ValueError", MsgRequired, us)
    ELSE IF i = 0 THEN Raise("ValueError", MsgInvalid, us)
    ELSE IF ~check_password_hash(us[i].password_hash, password)
         THEN Raise("ValueError", MsgInvalid, us)
    ELSE IF ~us[i].is_active
         THEN Raise("ValueError", MsgInactive, update_last_login(us, i, t))
    ELSE [kind |-> "ok", msg |-> "", users |-> update_last_login(us, i, t),
          data |-> Identity(update_last_login(us, i, t), i)]

\* authenticate_user(email, password) at time t
authenticate_user(us, email, password, t) ==
    LET i == get_by_email(us, email) IN
    IF Falsy(email) \/ Falsy(password) THEN Raise("ValueError", MsgRequired, us)
    ELSE IF i = 0 THEN Raise("ValueError", MsgInvalid, us)
    ELSE IF ~check_password_hash(us[i].password_hash, password)
         THEN Raise("ValueError", MsgInvalid, us)
    ELSE IF ~us[i].is_active THEN Raise("ValueError", MsgInactive, us)
    ELSE [kind |-> "ok", msg |-> "", users |-> update_last_login(us, i, t),
          data |-> Identity(update_last_login(us, i, t), i)]

\* register_new_user(user_data), up to the lookup of the default role:
\* user_data holds email, password, confirm_password and name (the controller
\* passes no phone, which then defaults to '').  .strip() on a field that is
\* None raises AttributeError.
register_checks(us, rs, user_data) ==
    LET email == Strip(user_data.email)
        password == user_data.password
        confirm_password == user_data.confirm_password
        name == Strip(user_data.name)
    IN
    IF IsNone(user_data.email) \/ IsNone(user_data.name)
    THEN Raise("AttributeError", "'NoneType' object has no attribute 'strip'", us)
    ELSE IF email = <<>> \/ Falsy(password) \/ name = <<>>
         THEN Raise("ValueError", MsgRegRequired, us)
    ELSE IF ~Contains(email, "@") \/ ~Contains(email, ".")
         THEN Raise("ValueError", MsgEmailFormat, us)
    ELSE IF password # confirm_password THEN Raise("ValueError", MsgMismatch, us)
    ELSE IF Len(password) < MinPasswordLen THEN Raise("ValueError", MsgShort, us)
    ELSE IF get_by_email(us, email) # 0 THEN Raise("ValueError", MsgTaken, us)
    ELSE IF "doorholder" \notin rs THEN Raise("ValueError", MsgNoRole, us)
    ELSE [kind |-> "pass", msg |-> "", users |-> us, data |-> NoData]

\* register_new_user(user_data), from User.create on: nothing catches the
\* IntegrityError of a commit the unique index rejects
register_create(us, user_data, t) ==
    LET created == User_create(us, Strip(user_data.email),
                               generate_password_hash(user_data.password),
                               Strip(user_data.name), <<"doorholder">>, t)
    IN
    IF created.kind # "ok"
    THEN Raise(created.kind, "UNIQUE constraint failed: users.email", us)
    ELSE [kind |-> "ok", msg |-> "", users |-> created.users,
          data |-> Identity(created.users, created.id)]

\* The user created before the default role is looked up
register_new_user_create_first(us, rs, user_data, t) ==
    IF register_checks(us, rs, user_data).kind = "pass"
    THEN register_create(us, user_data, t)
    ELSE IF register_checks(us, rs, user_data).msg = MsgNoRole
    THEN Raise("ValueError", MsgNoRole,
               User_create(us, Strip(user_data.email),
                           generate_password_hash(user_data.password),
                           Strip(user_data.name), <<>>, t).users)
    ELSE register_checks(us, rs, user_data)

\* register_new_user(user_data), run without interruption
register_new_user(us, rs, user_data, t) ==
    IF register_checks(us, rs, user_data).kind # "pass"
    THEN register_checks(us, rs, user_data)
    ELSE register_create(us, user_data, t)

\* quick_login_by_id(user_id) at time t
quick_login_by_id(us, user_id, t) ==
    LET i == get_by_id(us, user_id) IN
    IF i = 0 THEN Raise("ValueError", MsgNotFound, us)
    ELSE IF ~us[i].is_active THEN Raise("ValueError", MsgQuickInactive, us)
    ELSE [kind |-> "ok", msg |-> "", users |-> update_last_login(us, i, t),
          data |-> Identity(update_last_login(us, i, t), i)]

----------------------------------------------------------------------------
(* The session cookie and the responses *)

IdentityKeys == {"user_id", "user_name", "user_roles", "user_primary_role"}

EmptySession ==
    [keys |-> {}, user_id |-> 0, user_name |-> None, user_roles |-> <<>>,
     user_primary_role |-> NoRole]

\* The primary role left as it was
SetIdentity_stale_primary(sess, data) ==
    [keys |-> sess.keys \cup IdentityKeys, user_id |-> data.id,
     user_name |-> data.name, user_roles |-> data.roles,
     user_primary_role |-> sess.user_primary_role]

\* session['user_id'] = ..., and the three assignments after it
SetIdentity(sess, data) ==
    [keys |-> sess.keys \cup IdentityKeys, user_id |-> data.id,
     user_name |-> data.name, user_roles |-> data.roles,
     user_primary_role |-> data.primary_role]

NoForm ==
    [email |-> None, password |-> None, confirm_password |-> None, name |-> None]

Request(route, form, user_id) == [route |-> route, form |-> form, user_id |-> user_id]

Workers == 1..MaxWorkers

\* A response: a redirect to an endpoint or a rendered page, the message
\* flashed, the exception the service raised ("ok" for none) and whether the
\* dashboard data were computed; data is the value a model method returned.
\* An exception no handler catches ends the
\* request with status "error".
Response(status, target, flash, exc, computed) ==
    [status |-> status, target |-> target, flash |-> flash, exc |-> exc,
     computed |-> computed, data |-> NoData]

Redirect(target, flash, exc) == Response("redirect", target, flash, exc, FALSE)

Unhandled(exc) == Response("error", "500", "", exc, FALSE)

----------------------------------------------------------------------------
(* controllers/auth.py *)

\* POST /auth/login
Login(email, password) ==
    LET r == authenticate_user(users, email, password, now) IN
    /\ req' = Request("auth.login", [NoForm EXCEPT !.email = email, !.password = password], 0)
    /\ users' = r.users
    /\ IF r.kind = "ok"
       THEN /\ session' = SetIdentity(session, r.data)
            /\ resp' = Redirect("dashboard.index", "Login successful!", "ok")
       ELSE /\ session' = session
            /\ resp' = Redirect("auth.login_page", r.msg, r.kind)
    /\ UNCHANGED <<roles, now, config, inflight, tables>>

\* The end of register(): success, a ValueError caught, or an exception that
\* leaves the handler
RegisterResponse(r) ==
    IF r.kind = "ok"
    THEN Redirect("auth.login_page", "Registration successful! Please login.", "ok")
    ELSE IF r.kind = "ValueError"
    THEN Redirect("auth.register_page", r.msg, r.kind)
    ELSE Unhandled(r.kind)

\* POST /auth/register
Register(form) ==
    LET r == register_new_user(users, roles, form, now) IN
    /\ req' = Request("auth.register", form, 0)
    /\ users' = r.users
    /\ resp' = RegisterResponse(r)
    /\ UNCHANGED <<roles, session, now, config, inflight, tables>>

\* A logout that pops user_id and leaves the other keys
Logout_pop_user_id ==
    /\ req' = Request("auth.logout", NoForm, 0)
    /\ session' = [session EXCEPT !.keys = @ \ {"user_id"}]
    /\ resp' = Redirect("auth.login_page", "You have been logged out.", "ok")
    /\ UNCHANGED <<users, roles, now, config, inflight, tables>>

\* POST /auth/logout
Logout ==
    /\ req' = Request("auth.logout", NoForm, 0)
    /\ session' = EmptySession
    /\ resp' = Redirect("auth.login_page", "You have been logged out.", "ok")
    /\ UNCHANGED <<users, roles, now, config, inflight, tables>>

\* POST /auth/quick-login/<user_id>
QuickLogin(user_id) ==
    LET r == quick_login_by_id(users, user_id, now) IN
    /\ req' = Request("auth.quick_login", NoForm, user_id)
    /\ users' = r.users
    /\ IF r.kind = "ok"
       THEN /\ session' = SetIdentity(session, r.data)
            /\ resp' = Redirect("dashboard.index", "Logged in as", "ok")
       ELSE /\ session' = session
            /\ resp' = Redirect("auth.login_page", r.msg, r.kind)
    /\ UNCHANGED <<roles, now, config, inflight, tables>>

----------------------------------------------------------------------------
(* controllers/dashboard.py *)

\* The decorators: "login" for the redirect to the login page, "forbidden"
\* for the redirect to the default dashboard, "pass" for the call of the view
login_required(sess) == IF "user_id" \notin sess.keys THEN "login" ELSE "pass"

\* session.get('user_roles', [])
SessionRoles(sess) ==
    IF "user_roles" \in sess.keys
    THEN {sess.user_roles[k] : k \in 1..Len(sess.user_roles)}
    ELSE {}

\* The decorator testing the login only
role_required_login_only(sess, required_roles) == login_required(sess)

\* The decorator reading the roles the stored user holds now
role_required_from_store(sess, required_roles) ==
    IF "user_id" \notin sess.keys THEN "login"
    ELSE IF sess.user_id \notin DOMAIN users THEN "forbidden"
    ELSE IF ~users[sess.user_id].is_active THEN "forbidden"
    ELSE IF Held(users[sess.user_id]) \cap required_roles = {} THEN "forbidden"
    ELSE "pass"

role_required(sess, required_roles) ==
    IF "user_id" \notin sess.keys THEN "login"
    ELSE IF SessionRoles(sess) \cap required_roles = {} THEN "forbidden"
    ELSE "pass"

\* The roles each route's decorator names; the doorholder dashboard asks
\* only for a login
RequiredRoles(route) ==
    CASE route = "dashboard.superuser" -> {"superuser"}
      [] route = "dashboard.admin" -> {"admin", "superuser"}
      [] route = "dashboard.team_lead" -> {"team_lead", "admin", "superuser"}

GatedRoutes == {"dashboard.superuser", "dashboard.admin", "dashboard.team_lead"}

Gate(route, sess) ==
    IF route \in GatedRoutes THEN role_required(sess, RequiredRoles(route))
    ELSE login_required(sess)

\* services/dashboard_service.py.  A helper gives [kind, value]: kind is "ok"
\* or the exception raised, value what is returned.  A list is modelled as
\* the set of its entries, an entry by the fields the templates are given.

OfUser(rows, user_id) == {i \in DOMAIN rows : rows[i].user_id = user_id}

\* _get_user_enrollments: [] for an unknown user; building the entry of an
\* enrollment reads enrollment.progress, which Enrollment does not define
_get_user_enrollments(us, es, user_id) ==
    IF get_by_id(us, user_id) = 0 THEN [kind |-> "ok", value |-> {}]
    ELSE IF OfUser(es, user_id) # {} THEN [kind |-> "AttributeError", value |-> {}]
    ELSE [kind |-> "ok",
          value |-> {[id |-> i, status |-> es[i].status] : i \in OfUser(es, user_id)}]

\* _get_user_progress
_get_user_progress(us, es, user_id) ==
    IF get_by_id(us, user_id) = 0
    THEN [total_courses |-> 0, completed |-> 0, in_progress |-> 0]
    ELSE [total_courses |-> Cardinality(OfUser(es, user_id)),
          completed |->
            Cardinality({i \in OfUser(es, user_id) : es[i].status = "completed"}),
          in_progress |->
            Cardinality({i \in OfUser(es, user_id) : es[i].status = "in_progress"})]

\* _get_user_certificates: [] for an unknown user; building the entry of a
\* certificate reads cert.certificate_url, which Certificate does not define
_get_user_certificates(us, certs, user_id) ==
    IF get_by_id(us, user_id) = 0 THEN [kind |-> "ok", value |-> {}]
    ELSE IF OfUser(certs, user_id) # {} THEN [kind |-> "AttributeError", value |-> {}]
    ELSE [kind |-> "ok", value |-> {[id |-> i] : i \in OfUser(certs, user_id)}]

\* The data no dashboard function returned
NoBoard ==
    [enrollments |-> {}, certificates |-> {},
     progress |-> [total_courses |-> 0, completed |-> 0, in_progress |-> 0]]

\* get_doorholder_dashboard_data: the three entries of the dictionary are
\* evaluated in turn, and the first exception leaves the function
get_doorholder_dashboard_data(us, es, certs, user_id) ==
    IF _get_user_enrollments(us, es, user_id).kind # "ok"
    THEN [kind |-> _get_user_enrollments(us, es, user_id).kind, value |-> NoBoard]
    ELSE IF _get_user_certificates(us, certs, user_id).kind # "ok"
    THEN [kind |-> _get_user_certificates(us, certs, user_id).kind, value |-> NoBoard]
    ELSE [kind |-> "ok",
          value |-> [enrollments |-> _get_user_enrollments(us, es, user_id).value,
                     progress |-> _get_user_progress(us, es, user_id),
                     certificates |-> _get_user_certificates(us, certs, user_id).value]]

\* get_admin_dashboard_data: _get_recent_enrollments reads
\* enrollment.student.name and enrollment.course.title, and the student or
\* the course of a row whose user or course is not stored is None
get_admin_dashboard_data(us, es, cs) ==
    IF \E i \in DOMAIN es : es[i].user_id \notin DOMAIN us \/ es[i].course_id \notin DOMAIN cs
    THEN [kind |-> "AttributeError", value |-> NoBoard]
    ELSE [kind |-> "ok", value |-> NoBoard]

\* get_*_dashboard_data, by the route that calls it; the superuser's data are
\* counts and lists of columns, the team lead's are constants
get_dashboard_data(route, us, es, certs, cs, user_id) ==
    CASE route = "dashboard.doorholder" -> get_doorholder_dashboard_data(us, es, certs, user_id)
      [] route = "dashboard.admin" -> get_admin_dashboard_data(us, es, cs)
      [] OTHER -> [kind |-> "ok", value |-> NoBoard]

\* The views without their try/except: an exception of the data function
\* leaves the view
Dashboard_uncaught(route) ==
    /\ req' = Request(route, NoForm, 0)
    /\ resp' =
        CASE Gate(route, session) = "login" ->
                Redirect("auth.login_page", "Please log in to access this page", "ok")
          [] Gate(route, session) = "forbidden" ->
                Redirect("dashboard.index",
                         "You do not have permission to access this page", "ok")
          [] OTHER ->
                IF get_dashboard_data(route, users, enrollments, certificates,
                                      courses, session.user_id).kind = "ok"
                THEN Response("render", route, "", "ok", TRUE)
                ELSE Unhandled(get_dashboard_data(route, users, enrollments, certificates,
                                                  courses, session.user_id).kind)
    /\ UNCHANGED <<users, roles, session, now, config, inflight, tables>>

\* GET /dashboard/superuser, /admin, /team-lead, /doorholder
Dashboard(route) ==
    /\ req' = Request(route, NoForm, 0)
    /\ resp' =
        CASE Gate(route, session) = "login" ->
                Redirect("auth.login_page", "Please log in to access this page", "ok")
          [] Gate(route, session) = "forbidden" ->
                Redirect("dashboard.index",
                         "You do not have permission to access this page", "ok")
          [] OTHER ->
                IF get_dashboard_data(route, users, enrollments, certificates,
                                      courses, session.user_id).kind = "ok"
                THEN Response("render", route, "", "ok", TRUE)
                ELSE Response("redirect", "main.index", "Error loading dashboard",
                              get_dashboard_data(route, users, enrollments, certificates,
                                                 courses, session.user_id).kind, TRUE)
    /\ UNCHANGED <<users, roles, session, now, config, inflight, tables>>

\* The default dashboard sending every known role to the superuser's
DashboardIndex_to_superuser ==
    /\ req' = Request("dashboard.index", NoForm, 0)
    /\ resp' =
        IF login_required(session) = "login"
        THEN Redirect("auth.login_page", "Please log in to access this page", "ok")
        ELSE IF session.user_primary_role \in
                    {"superuser", "admin", "team_lead", "doorholder"}
        THEN Redirect("dashboard.superuser", "", "ok")
        ELSE Redirect("auth.logout", "Invalid role configuration", "ok")
    /\ UNCHANGED <<users, roles, session, now, config, inflight, tables>>

\* GET /dashboard/
DashboardIndex ==
    /\ req' = Request("dashboard.index", NoForm, 0)
    /\ resp' =
        IF login_required(session) = "login"
        THEN Redirect("auth.login_page", "Please log in to access this page", "ok")
        ELSE IF session.user_primary_role \in
                    {"superuser", "admin", "team_lead", "doorholder"}
        THEN Redirect("dashboard." \o session.user_primary_role, "", "ok")
        ELSE Redirect("auth.logout", "Invalid role configuration", "ok")
    /\ UNCHANGED <<users, roles, session, now, config, inflight, tables>>

DashboardRoutes == GatedRoutes \cup {"dashboard.doorholder"}

\* GET of a page outside the dashboards: the landing page (routes.py) and the
\* login form are rendered; /auth/logout is registered for POST only, and a
\* GET of it ends with 405 Method Not Allowed
Page(endpoint) ==
    /\ req' = Request(endpoint, NoForm, 0)
    /\ resp' = IF endpoint = "auth.logout"
               THEN Response("error", "405", "", "ok", FALSE)
               ELSE Response("render", endpoint, "", "ok", FALSE)
    /\ UNCHANGED <<users, roles, session, now, config, inflight, tables>>

\* The browser follows the redirect of the last response with a GET of its
\* target, sending the same session cookie
FollowRedirect ==
    /\ resp.status = "redirect"
    /\ CASE resp.target = "dashboard.index" -> DashboardIndex
         [] resp.target \in DashboardRoutes -> Dashboard(resp.target)
         [] OTHER -> Page(resp.target)

----------------------------------------------------------------------------
(* Operations on the store outside the request handlers *)

\* seed_roles(): create each of the four system roles that is missing
SeedRoles ==
    /\ req' = Request("seed_roles", NoForm, 0)
    /\ roles' = roles \cup SeedRoleNames
    /\ resp' = Response("done", "", "", "ok", FALSE)
    /\ UNCHANGED <<users, session, now, config, inflight, tables>>

\* User.deactivate()
Deactivate(i) ==
    /\ i \in DOMAIN users
    /\ req' = Request("User.deactivate", NoForm, i)
    /\ users' = set_active(users, i, FALSE, now)
    /\ resp' = Response("done", "", "", "ok", FALSE)
    /\ UNCHANGED <<roles, session, now, config, inflight, tables>>

\* User.activate()
Activate(i) ==
    /\ i \in DOMAIN users
    /\ req' = Request("User.activate", NoForm, i)
    /\ users' = set_active(users, i, TRUE, now)
    /\ resp' = Response("done", "", "", "ok", FALSE)
    /\ UNCHANGED <<roles, session, now, config, inflight, tables>>

\* User.add_role(role), the new row showing at place k of the user's roles
AddRole(i, role, k) ==
    /\ i \in DOMAIN users
    /\ role \in roles
    /\ k \in 1..(Len(users[i].roles) + 1)
    /\ req' = Request("User.add_role", NoForm, i)
    /\ users' = add_role(users, i, role, k)
    /\ resp' = Response("done", "", "", "ok", FALSE)
    /\ UNCHANGED <<roles, session, now, config, inflight, tables>>

\* User.remove_role(role)
RemoveRole(i, role) ==
    /\ i \in DOMAIN users
    /\ role \in Held(users[i])
    /\ req' = Request("User.remove_role", NoForm, i)
    /\ users' = remove_role(users, i, role)
    /\ resp' = Response("done", "", "", "ok", FALSE)
    /\ UNCHANGED <<roles, session, now, config, inflight, tables>>

\* User.to_dict()
ToDict(i) ==
    /\ i \in DOMAIN users
    /\ req' = Request("User.to_dict", NoForm, i)
    /\ resp' = [Response("done", "", "", "ok", FALSE) EXCEPT !.data = Identity(users, i)]
    /\ UNCHANGED <<users, roles, session, now, config, inflight, tables>>

\* Time passes
Tick ==
    /\ now < MaxClock
    /\ now' = now + 1
    /\ UNCHANGED <<users, roles, session, req, resp, config, inflight, tables>>

----------------------------------------------------------------------------
(* The tables of the other models.  A call of a model method is recorded in *)
(* req (the method, the row it was called on, its argument) and its outcome *)
(* in resp (the exception raised, "ok" for none, and the value returned).   *)

NoRows == [i \in {} |-> 0]

Drop(rows, i) == [j \in DOMAIN rows \ {i} |-> rows[j]]

\* No Certificate.create call under way
NoPending == [number |-> None, user_id |-> 0, course_id |-> 0, expiration_months |-> 0]

\* No get_or_create call under way
NoLook == [user_id |-> 0, lesson_id |-> 0]

\* No row in any table but users and roles, no certificate being created
EmptyTables ==
    /\ enrollments = NoRows
    /\ certificates = NoRows
    /\ team_members = NoRows
    /\ sessions = NoRows
    /\ courses = NoRows
    /\ lessons = NoRows
    /\ pending = [w \in Workers |-> NoPending]
    /\ lesson_progress = NoRows
    /\ looking = [w \in Workers |-> NoLook]

Call(route, id, arg) == [route |-> route, form |-> NoForm, user_id |-> id, arg |-> arg]

Returns(exc, value) ==
    [status |-> "done", target |-> "", flash |-> "", exc |-> exc,
     computed |-> FALSE, data |-> NoData, value |-> value]

\* The largest primary key a table of the model is let to reach
MaxRows == 3

----------------------------------------------------------------------------
(* models/enrollment.py *)

\* team_id NULL, score NULL
NoTeam == 0
NoScore == 0 - 1

\* The columns the methods below read or write (the deadlines, assigned_by
\* and enrolled_at are written once and read by no method but to_dict)
EnrollmentRow(user_id, course_id, team_id) ==
    [user_id |-> user_id, course_id |-> course_id, team_id |-> team_id,
     status |-> "not_started", started_at |-> NoTime, completed_at |-> NoTime,
     score |-> NoScore]

\* unique_user_course_team: the index refuses a row equal in the three
\* columns to another row.  NULL is distinct from every value in a UNIQUE
\* index, NULL included, so rows without a team never collide.
unique_user_course_team(es, i, row) ==
    \A j \in DOMAIN es \ {i} :
        \/ es[j].user_id # row.user_id
        \/ es[j].course_id # row.course_id
        \/ es[j].team_id # row.team_id
        \/ row.team_id = NoTeam

\* Enrollment.create: add and commit
Enrollment_create(es, user_id, course_id, team_id) ==
    IF unique_user_course_team(es, 0, EnrollmentRow(user_id, course_id, team_id))
    THEN [kind |-> "ok", rows |-> Put(es, NextId(es), EnrollmentRow(user_id, course_id, team_id)),
          id |-> NextId(es)]
    ELSE [kind |-> "IntegrityError", rows |-> es, id |-> 0]

\* Enrollment.update(team_id=value): setattr and commit; a key that is no
\* attribute of the row is skipped
Enrollment_update(es, i, key, value) ==
    IF key # "team_id" THEN [kind |-> "ok", rows |-> es]
    ELSE IF unique_user_course_team(es, i, [es[i] EXCEPT !.team_id = value])
    THEN [kind |-> "ok", rows |-> [es EXCEPT ![i].team_id = value]]
    ELSE [kind |-> "IntegrityError", rows |-> es]

\* start() that stamps the time on every call
start_restamp(es, i, t) ==
    [es EXCEPT ![i].started_at = t, ![i].status = "in_progress"]

\* Enrollment.start at time t
start(es, i, t) ==
    [es EXCEPT ![i].started_at = IF @ = NoTime THEN t ELSE @,
               ![i].status = "in_progress"]

\* complete() that tests the score for truth, not for None
complete_truthy(es, i, score, t) ==
    [es EXCEPT ![i].completed_at = t, ![i].status = "completed",
               ![i].score = IF score # NoScore /\ score # 0 THEN score ELSE @]

\* Enrollment.complete(score) at time t
complete(es, i, score, t) ==
    [es EXCEPT ![i].completed_at = t, ![i].status = "completed",
               ![i].score = IF score # NoScore THEN score ELSE @]

\* Enrollment.expire
expire(es, i) == [es EXCEPT ![i].status = "expired"]

EnrollmentCreate(user_id, course_id, team_id) ==
    LET r == Enrollment_create(enrollments, user_id, course_id, team_id) IN
    /\ NextId(enrollments) <= MaxRows
    /\ req' = Call("Enrollment.create", 0, <<user_id, course_id, team_id>>)
    /\ enrollments' = r.rows
    /\ resp' = Returns(r.kind, r.id)
    /\ UNCHANGED <<users, roles, session, now, config, inflight, certificates,
                   team_members, sessions, courses, lessons, pending,
                   lesson_progress, looking>>

EnrollmentUpdate(i, key, value) ==
    LET r == Enrollment_update(enrollments, i, key, value) IN
    /\ i \in DOMAIN enrollments
    /\ req' = Call("Enrollment.update", i, <<key, value>>)
    /\ enrollments' = r.rows
    /\ resp' = Returns(r.kind, i)
    /\ UNCHANGED <<users, roles, session, now, config, inflight, certificates,
                   team_members, sessions, courses, lessons, pending,
                   lesson_progress, looking>>

\* Enrollment.delete
EnrollmentDelete(i) ==
    /\ i \in DOMAIN enrollments
    /\ req' = Call("Enrollment.delete", i, 0)
    /\ enrollments' = Drop(enrollments, i)
    /\ resp' = Returns("ok", 0)
    /\ UNCHANGED <<users, roles, session, now, config, inflight, certificates,
                   team_members, sessions, courses, lessons, pending,
                   lesson_progress, looking>>

EnrollmentStart(i) ==
    /\ i \in DOMAIN enrollments
    /\ req' = Call("Enrollment.start", i, 0)
    /\ enrollments' = start(enrollments, i, now)
    /\ resp' = Returns("ok", i)
    /\ UNCHANGED <<users, roles, session, now, config, inflight, certificates,
                   team_members, sessions, courses, lessons, pending,
                   lesson_progress, looking>>

EnrollmentComplete(i, score) ==
    /\ i \in DOMAIN enrollments
    /\ req' = Call("Enrollment.complete", i, score)
    /\ enrollments' = complete(enrollments, i, score, now)
    /\ resp' = Returns("ok", i)
    /\ UNCHANGED <<users, roles, session, now, config, inflight, certificates,
                   team_members, sessions, courses, lessons, pending,
                   lesson_progress, looking>>

EnrollmentExpire(i) ==
    /\ i \in DOMAIN enrollments
    /\ req' = Call("Enrollment.expire", i, 0)
    /\ enrollments' = expire(enrollments, i)
    /\ resp' = Returns("ok", i)
    /\ UNCHANGED <<users, roles, session, now, config, inflight, certificates,
                   team_members, sessions, courses, lessons, pending,
                   lesson_progress, looking>>

----------------------------------------------------------------------------
(* models/certificate.py *)

HexDigits ==
    <<"0", "1", "2", "3", "4", "5", "6", "7", "8", "9", "a", "b", "c", "d", "e", "f">>

\* secrets.token_hex: two hexadecimal digits for each random byte
RECURSIVE token_hex(_)
token_hex(bytes) ==
    IF bytes = <<>> THEN <<>>
    ELSE <<HexDigits[(Head(bytes) \div 16) + 1], HexDigits[(Head(bytes) % 16) + 1]>>
            \o token_hex(Tail(bytes))

\* str.upper()
upper(s) ==
    [i \in 1..Len(s) |->
        CASE s[i] = "a" -> "A" [] s[i] = "b" -> "B" [] s[i] = "c" -> "C"
          [] s[i] = "d" -> "D" [] s[i] = "e" -> "E" [] s[i] = "f" -> "F"
          [] OTHER -> s[i]]

\* The decimal digits of n, zero-padded to a width
RECURSIVE Decimal(_, _)
Decimal(n, width) ==
    IF width = 0 THEN <<>>
    ELSE Decimal(n \div 10, width - 1) \o <<HexDigits[(n % 10) + 1]>>

\* The date of clock value t: the clock counts the days of January 2024
DateOf(t) == [year |-> 2024, month |-> 1, day |-> t]

\* strftime('%Y%m%d')
strftime(d) == Decimal(d.year, 4) \o Decimal(d.month, 2) \o Decimal(d.day, 2)

\* f'CERT-{date_str}-{random_str}'
cert_number(t, bytes) ==
    <<"C", "E", "R", "T", "-">> \o strftime(DateOf(t)) \o <<"-">> \o upper(token_hex(bytes))

\* Certificate.query.filter_by(certificate_number=...).first()
get_by_number(certs, number) ==
    IF \E i \in DOMAIN certs : certs[i].certificate_number = number
    THEN CHOOSE i \in DOMAIN certs : certs[i].certificate_number = number
    ELSE 0

\* The first number generated is returned without the lookup
generate_certificate_number_unchecked(certs, t, draws) ==
    IF draws = <<>> THEN None ELSE cert_number(t, Head(draws))

\* Certificate.generate_certificate_number at time t: draws are the random
\* bytes of the successive turns of the loop; the first number not stored is
\* returned (None: every draw given was stored, the loop is still running)
RECURSIVE generate_certificate_number(_, _, _)
generate_certificate_number(certs, t, draws) ==
    IF draws = <<>> THEN None
    ELSE IF get_by_number(certs, cert_number(t, Head(draws))) = 0
         THEN cert_number(t, Head(draws))
    ELSE generate_certificate_number(certs, t, Tail(draws))

\* expires_at: unset without expiration_months, else 30 days a month from t
ExpiresAt(expiration_months, t) ==
    IF expiration_months = 0 THEN NoTime ELSE t + 30 * expiration_months

CertificateRow(user_id, course_id, certificate_number, expires_at) ==
    [user_id |-> user_id, course_id |-> course_id,
     certificate_number |-> certificate_number, expires_at |-> expires_at]

\* Certificate.create from the commit on: the unique index on
\* certificate_number makes the commit fail when the number is stored
Certificate_commit(certs, user_id, course_id, expiration_months, number, t) ==
    IF \E i \in DOMAIN certs : certs[i].certificate_number = number
    THEN [kind |-> "IntegrityError", rows |-> certs, id |-> 0]
    ELSE [kind |-> "ok",
          rows |-> Put(certs, NextId(certs),
                       CertificateRow(user_id, course_id, number,
                                      ExpiresAt(expiration_months, t))),
          id |-> NextId(certs)]

\* The largest primary key the certificates table is let to reach
MaxCerts == 2

\* Certificate.create(user_id, course_id, expiration_months), run without
\* interruption
CertificateCreate(user_id, course_id, expiration_months, draws) ==
    LET number == generate_certificate_number(certificates, now, draws)
        r == Certificate_commit(certificates, user_id, course_id, expiration_months,
                                number, now)
    IN
    /\ NextId(certificates) <= MaxCerts
    /\ number # None
    /\ req' = Call("Certificate.create", 0, draws)
    /\ certificates' = r.rows
    /\ resp' = Returns(r.kind, r.id)
    /\ UNCHANGED <<users, roles, session, now, config, inflight, enrollments,
                   team_members, sessions, courses, lessons, pending,
                   lesson_progress, looking>>

\* Certificate.create, up to the return of generate_certificate_number
CertificateGenerate(w, user_id, course_id, expiration_months, draws) ==
    LET number == generate_certificate_number(certificates, now, draws) IN
    /\ pending[w] = NoPending
    /\ NextId(certificates) <= MaxCerts
    /\ number # None
    /\ pending' = [pending EXCEPT ![w] =
            [number |-> number, user_id |-> user_id, course_id |-> course_id,
             expiration_months |-> expiration_months]]
    /\ UNCHANGED <<users, roles, session, req, resp, now, config, inflight, enrollments,
                   certificates, team_members, sessions, courses, lessons,
                   lesson_progress, looking>>

\* Certificate.create, from there on.  No caller and no service of the
\* repository catches what the commit raises.
CertificateCommit(w) ==
    LET p == pending[w]
        r == Certificate_commit(certificates, p.user_id, p.course_id,
                                p.expiration_months, p.number, now)
    IN
    /\ p # NoPending
    /\ pending' = [pending EXCEPT ![w] = NoPending]
    /\ req' = Call("Certificate.create", w, p.number)
    /\ certificates' = r.rows
    /\ resp' = Returns(r.kind, r.id)
    /\ UNCHANGED <<users, roles, session, now, config, inflight, enrollments,
                   team_members, sessions, courses, lessons,
                   lesson_progress, looking>>

----------------------------------------------------------------------------
(* models/team_member.py *)

TeamMemberRow(team_id, user_id, is_team_lead) ==
    [team_id |-> team_id, user_id |-> user_id, is_team_lead |-> is_team_lead]

\* A table without the unique_team_user constraint
TeamMember_create_unconstrained(ms, team_id, user_id, is_team_lead) ==
    [kind |-> "ok", rows |-> Put(ms, NextId(ms), TeamMemberRow(team_id, user_id, is_team_lead)),
     id |-> NextId(ms)]

\* TeamMember.create: add and commit; unique_team_user makes the commit fail
\* when the pair has a row (neither column is nullable)
TeamMember_create(ms, team_id, user_id, is_team_lead) ==
    IF \E i \in DOMAIN ms : ms[i].team_id = team_id /\ ms[i].user_id = user_id
    THEN [kind |-> "IntegrityError", rows |-> ms, id |-> 0]
    ELSE [kind |-> "ok",
          rows |-> Put(ms, NextId(ms), TeamMemberRow(team_id, user_id, is_team_lead)),
          id |-> NextId(ms)]

TeamMemberCreate(team_id, user_id, is_team_lead) ==
    LET r == TeamMember_create(team_members, team_id, user_id, is_team_lead) IN
    /\ NextId(team_members) <= MaxRows
    /\ req' = Call("TeamMember.create", 0, <<team_id, user_id, is_team_lead>>)
    /\ team_members' = r.rows
    /\ resp' = Returns(r.kind, r.id)
    /\ UNCHANGED <<users, roles, session, now, config, inflight, enrollments,
                   certificates, sessions, courses, lessons, pending,
                   lesson_progress, looking>>

\* TeamMember.delete
TeamMemberDelete(i) ==
    /\ i \in DOMAIN team_members
    /\ req' = Call("TeamMember.delete", i, 0)
    /\ team_members' = Drop(team_members, i)
    /\ resp' = Returns("ok", 0)
    /\ UNCHANGED <<users, roles, session, now, config, inflight, enrollments,
                   certificates, sessions, courses, lessons, pending,
                   lesson_progress, looking>>

\* TeamMember.promote_to_lead (flag TRUE), TeamMember.demote_from_lead (FALSE)
TeamMemberSetLead(i, flag) ==
    /\ i \in DOMAIN team_members
    /\ req' = Call(IF flag THEN "TeamMember.promote_to_lead"
                   ELSE "TeamMember.demote_from_lead", i, 0)
    /\ team_members' = [team_members EXCEPT ![i].is_team_lead = flag]
    /\ resp' = Returns("ok", i)
    /\ UNCHANGED <<users, roles, session, now, config, inflight, enrollments,
                   certificates, sessions, courses, lessons, pending,
                   lesson_progress, looking>>

----------------------------------------------------------------------------
(* models/session.py: the sessions table of login tokens.  A duration is    *)
(* given in ticks of the clock.                                             *)

SessionRow(user_id, token, expires_at) ==
    [user_id |-> user_id, token |-> token, expires_at |-> expires_at]

\* Session.create at time t: the unique index on token makes the commit fail
\* when the token is stored
Session_create(ss, user_id, token, expires_in_hours, t) ==
    IF \E i \in DOMAIN ss : ss[i].token = token
    THEN [kind |-> "IntegrityError", rows |-> ss, id |-> 0]
    ELSE [kind |-> "ok",
          rows |-> Put(ss, NextId(ss), SessionRow(user_id, token, t + expires_in_hours)),
          id |-> NextId(ss)]

\* Session.get_by_token: the id of the session, 0 for none
get_by_token(ss, token) ==
    IF \E i \in DOMAIN ss : ss[i].token = token
    THEN CHOOSE i \in DOMAIN ss : ss[i].token = token
    ELSE 0

\* A session counted valid at the instant of its expiry
is_valid_inclusive(row, t) == t <= row.expires_at

\* Session.is_valid at time t
is_valid(row, t) == t < row.expires_at

\* Session.get_valid_session at time t: the id of the session, 0 for None
get_valid_session(ss, token, t) ==
    IF get_by_token(ss, token) # 0 /\ is_valid(ss[get_by_token(ss, token)], t)
    THEN get_by_token(ss, token)
    ELSE 0

SessionCreate(user_id, token, expires_in_hours) ==
    LET r == Session_create(sessions, user_id, token, expires_in_hours, now) IN
    /\ NextId(sessions) <= MaxRows
    /\ req' = Call("Session.create", 0, token)
    /\ sessions' = r.rows
    /\ resp' = Returns(r.kind, r.id)
    /\ UNCHANGED <<users, roles, session, now, config, inflight, enrollments,
                   certificates, team_members, courses, lessons, pending,
                   lesson_progress, looking>>

GetValidSession(token) ==
    /\ req' = Call("Session.get_valid_session", 0, token)
    /\ resp' = Returns("ok", get_valid_session(sessions, token, now))
    /\ UNCHANGED <<users, roles, session, now, config, inflight, tables>>

IsValid(i) ==
    /\ i \in DOMAIN sessions
    /\ req' = Call("Session.is_valid", i, 0)
    /\ resp' = Returns("ok", is_valid(sessions[i], now))
    /\ UNCHANGED <<users, roles, session, now, config, inflight, tables>>

\* Session.cleanup_expired at time t: the rows the filter expires_at < t
\* selects are deleted; rows is what is left, count the number deleted
cleanup_expired(ss, t) ==
    [rows |-> [i \in {j \in DOMAIN ss : ~(ss[j].expires_at < t)} |-> ss[i]],
     count |-> Cardinality({j \in DOMAIN ss : ss[j].expires_at < t})]

CleanupExpired ==
    /\ req' = Call("Session.cleanup_expired", 0, 0)
    /\ sessions' = cleanup_expired(sessions, now).rows
    /\ resp' = Returns("ok", cleanup_expired(sessions, now).count)
    /\ UNCHANGED <<users, roles, session, now, config, inflight, enrollments,
                   certificates, team_members, courses, lessons, pending,
                   lesson_progress, looking>>

\* An extension counted from the expiry the session had
SessionExtend_from_expiry(i, hours) ==
    /\ i \in DOMAIN sessions
    /\ req' = Call("Session.extend", i, hours)
    /\ sessions' = [sessions EXCEPT ![i].expires_at = @ + hours]
    /\ resp' = Returns("ok", i)
    /\ UNCHANGED <<users, roles, session, now, config, inflight, enrollments,
                   certificates, team_members, courses, lessons, pending,
                   lesson_progress, looking>>

\* Session.extend(hours)
SessionExtend(i, hours) ==
    /\ i \in DOMAIN sessions
    /\ req' = Call("Session.extend", i, hours)
    /\ sessions' = [sessions EXCEPT ![i].expires_at = now + hours]
    /\ resp' = Returns("ok", i)
    /\ UNCHANGED <<users, roles, session, now, config, inflight, enrollments,
                   certificates, team_members, courses, lessons, pending,
                   lesson_progress, looking>>

\* Session.delete
SessionDelete(i) ==
    /\ i \in DOMAIN sessions
    /\ req' = Call("Session.delete", i, 0)
    /\ sessions' = Drop(sessions, i)
    /\ resp' = Returns("ok", 0)
    /\ UNCHANGED <<users, roles, session, now, config, inflight, enrollments,
                   certificates, team_members, courses, lessons, pending,
                   lesson_progress, looking>>

----------------------------------------------------------------------------
(* models/course.py, models/lesson.py *)

CourseRow(created_by) == [created_by |-> created_by, is_active |-> TRUE]

LessonRow(course_id) == [course_id |-> course_id]

\* The rows of a table that belong to no course of a set
NotOf(rows, cs) == [i \in {j \in DOMAIN rows : rows[j].course_id \notin cs} |-> rows[i]]

\* The courses of user 1 that Course.create stored first
TwoCourses == Put(Put(NoRows, 1, CourseRow(1)), 2, CourseRow(1))

\* The largest primary key lessons and enrollments are let to reach where
\* courses are deleted
MaxChildren == 1

\* Lesson.create(course_id, ...)
LessonCreate(course_id) ==
    /\ NextId(lessons) <= MaxChildren
    /\ req' = Call("Lesson.create", 0, course_id)
    /\ lessons' = Put(lessons, NextId(lessons), LessonRow(course_id))
    /\ resp' = Returns("ok", NextId(lessons))
    /\ UNCHANGED <<users, roles, session, now, config, inflight, enrollments,
                   certificates, team_members, sessions, courses, pending,
                   lesson_progress, looking>>

OfCourse(rows, c) == {i \in DOMAIN rows : rows[i].course_id = c}

\* The progress records of other lessons than ls
NotOfLessons(rows, ls) ==
    [i \in {j \in DOMAIN rows : rows[j].lesson_id \notin ls} |-> rows[i]]

\* A delete that leaves the certificates of the course in the table
CourseDelete_keeps_certificates(c) ==
    /\ c \in DOMAIN courses
    /\ req' = Call("Course.delete", c, 0)
    /\ courses' = Drop(courses, c)
    /\ lessons' = NotOf(lessons, {c})
    /\ enrollments' = NotOf(enrollments, {c})
    /\ lesson_progress' = NotOfLessons(lesson_progress, OfCourse(lessons, c))
    /\ resp' = Returns("ok", 0)
    /\ UNCHANGED <<users, roles, session, now, config, inflight, certificates,
                   team_members, sessions, pending, looking>>

\* Course.delete: the session deletes the course and, by the cascade
\* 'all, delete-orphan' of Course.lessons, Course.enrollments and
\* Course.certificates, the rows whose course_id is the course, and with
\* each lesson its progress records (Lesson.progress_records)
CourseDelete(c) ==
    /\ c \in DOMAIN courses
    /\ req' = Call("Course.delete", c, 0)
    /\ courses' = Drop(courses, c)
    /\ lessons' = NotOf(lessons, {c})
    /\ enrollments' = NotOf(enrollments, {c})
    /\ certificates' = NotOf(certificates, {c})
    /\ lesson_progress' = NotOfLessons(lesson_progress, OfCourse(lessons, c))
    /\ resp' = Returns("ok", 0)
    /\ UNCHANGED <<users, roles, session, now, config, inflight, team_members,
                   sessions, pending, looking>>

----------------------------------------------------------------------------
(* models/user.py: User.delete.  The user's sessions and certificates are   *)
(* deleted with the row (cascade); the rows of the other tables that name   *)
(* the user would get a NULL user id, which their columns refuse.           *)

UserDelete(i) ==
    /\ i \in DOMAIN users
    /\ req' = Request("User.delete", NoForm, i)
    /\ IF \/ OfUser(enrollments, i) # {}
          \/ OfUser(team_members, i) # {}
          \/ \E c \in DOMAIN courses : courses[c].created_by = i
       THEN /\ resp' = Response("done", "", "", "IntegrityError", FALSE)
            /\ UNCHANGED <<users, sessions, certificates,
                   lesson_progress, looking>>
       ELSE /\ resp' = Response("done", "", "", "ok", FALSE)
            /\ users' = Drop(users, i)
            /\ sessions' = [j \in DOMAIN sessions \ OfUser(sessions, i) |-> sessions[j]]
            /\ certificates' =
                    [j \in DOMAIN certificates \ OfUser(certificates, i) |-> certificates[j]]
    /\ UNCHANGED <<roles, session, now, config, inflight, enrollments, team_members,
                   courses, lessons, pending,
                   lesson_progress, looking>>

----------------------------------------------------------------------------
(* models/lesson_progress.py: the table lesson_progress, unique in          *)
(* (user_id, lesson_id).  A worker runs get_or_create in two steps, the     *)
(* lookup and the insert, and another worker may run between them.          *)

\* LessonProgress.get_by_user_and_lesson: the id of the record, 0 for None
get_by_user_and_lesson(ps, user_id, lesson_id) ==
    IF \E i \in DOMAIN ps : ps[i].user_id = user_id /\ ps[i].lesson_id = lesson_id
    THEN CHOOSE i \in DOMAIN ps : ps[i].user_id = user_id /\ ps[i].lesson_id = lesson_id
    ELSE 0

\* An insert the table accepts whatever it holds
LessonProgress_create_unconstrained(ps, user_id, lesson_id) ==
    [kind |-> "ok",
     rows |-> Put(ps, NextId(ps), [user_id |-> user_id, lesson_id |-> lesson_id,
                                   completed |-> FALSE]),
     id |-> NextId(ps)]

\* LessonProgress.create: the constraint unique_user_lesson makes the commit
\* fail when a record of the pair is stored
LessonProgress_create(ps, user_id, lesson_id) ==
    IF get_by_user_and_lesson(ps, user_id, lesson_id) # 0
    THEN [kind |-> "IntegrityError", rows |-> ps, id |-> 0]
    ELSE [kind |-> "ok",
          rows |-> Put(ps, NextId(ps), [user_id |-> user_id, lesson_id |-> lesson_id,
                                        completed |-> FALSE]),
          id |-> NextId(ps)]

\* LessonProgress.get_or_create, the lookup (line 128): an existing record is
\* returned, and with none the call goes on to create
GetOrCreateFind(w, user_id, lesson_id) ==
    LET found == get_by_user_and_lesson(lesson_progress, user_id, lesson_id) IN
    /\ looking[w] = NoLook
    /\ IF found # 0
       THEN /\ req' = Call("LessonProgress.get_or_create", user_id, lesson_id)
            /\ resp' = Returns("ok", found)
            /\ UNCHANGED looking
       ELSE /\ looking' = [looking EXCEPT ![w] =
                                [user_id |-> user_id, lesson_id |-> lesson_id]]
            /\ UNCHANGED <<req, resp>>
    /\ UNCHANGED <<users, roles, session, now, config, inflight, enrollments,
                   certificates, team_members, sessions, courses, lessons, pending,
                   lesson_progress>>

\* LessonProgress.get_or_create, the create (line 130) and the return
GetOrCreateInsert(w) ==
    LET r == LessonProgress_create(lesson_progress, looking[w].user_id,
                                   looking[w].lesson_id)
    IN
    /\ looking[w] # NoLook
    /\ looking' = [looking EXCEPT ![w] = NoLook]
    /\ req' = Call("LessonProgress.get_or_create", looking[w].user_id,
                   looking[w].lesson_id)
    /\ lesson_progress' = r.rows
    /\ resp' = Returns(r.kind, r.id)
    /\ UNCHANGED <<users, roles, session, now, config, inflight, enrollments,
                   certificates, team_members, sessions, courses, lessons, pending>>

----------------------------------------------------------------------------
(* services/dashboard_service.py, called outside a request *)

\* A data function that stamps the user it reads
DashboardData_stamping(route, user_id) ==
    LET r == get_dashboard_data(route, users, enrollments, certificates, courses, user_id)
    IN
    /\ req' = Call("get_dashboard_data", user_id, route)
    /\ resp' = Returns(r.kind, r.value)
    /\ users' = IF user_id \in DOMAIN users
                THEN update_last_login(users, user_id, now)
                ELSE users
    /\ UNCHANGED <<roles, session, now, config, inflight, tables>>

\* get_*_dashboard_data called for a user id: the function the route names
DashboardData(route, user_id) ==
    LET r == get_dashboard_data(route, users, enrollments, certificates, courses, user_id)
    IN
    /\ req' = Call("get_dashboard_data", user_id, route)
    /\ resp' = Returns(r.kind, r.value)
    /\ UNCHANGED <<users, roles, session, now, config, inflight, tables>>

----------------------------------------------------------------------------
(* The registration and login flow, from an empty database *)

FormEmails ==
    {None, <<" ">>, EmailA, EmailAPadded, EmailB, <<"a", "@", "x">>, <<"a", ".", "c">>}
FormPasswords == {None, <<>>, PwShort, Pw}
FormConfirms == {PwShort, Pw}
FormNames == {None, <<" ">>, NameN}

RegisterForms ==
    [email : FormEmails, password : FormPasswords,
     confirm_password : FormConfirms, name : FormNames]

LoginEmails == {None, EmailA, EmailAPadded, EmailB}
LoginPasswords == {None, <<>>, Pw, PwOther}

NoUsers == [i \in {} |-> 0]

Init ==
    /\ users = NoUsers
    /\ roles = {}
    /\ session = EmptySession
    /\ req = Request("start", NoForm, 0)
    /\ resp = Response("done", "", "", "ok", FALSE)
    /\ now = 1
    /\ config = "development"
    /\ inflight = [w \in Workers |-> NoForm]
    /\ EmptyTables

\* Registration: every form, against every store registration can build
Next ==
    \/ SeedRoles
    \/ \E form \in RegisterForms : Register(form)

Spec == Init /\ [][Next]_vars

----------------------------------------------------------------------------
(* Login after registration *)

FlowForms ==
    {[email |-> e, password |-> Pw, confirm_password |-> Pw, name |-> NameN] :
        e \in {EmailAPadded, EmailB}}

NextLogin ==
    \/ SeedRoles
    \/ \E form \in FlowForms : Register(form)
    \/ \E email \in LoginEmails, password \in LoginPasswords : Login(email, password)
    \/ Logout
    \/ \E i \in DOMAIN users : Deactivate(i)
    \/ \E i \in DOMAIN users : Activate(i)
    \/ Tick

SpecLogin == Init /\ [][NextLogin]_vars

----------------------------------------------------------------------------
(* Concurrent registrations: each worker handles one POST /auth/register,   *)
(* and another worker may run between the lookup of the email (line 96) and *)
(* the commit in User.create (line 80).                                     *)

\* POST /auth/register, up to the lookup of the default role
RegisterCheck(w, form) ==
    LET r == register_checks(users, roles, form) IN
    /\ inflight[w] = NoForm
    /\ IF r.kind = "pass"
       THEN /\ inflight' = [inflight EXCEPT ![w] = form]
            /\ UNCHANGED <<req, resp,
                   lesson_progress, looking>>
       ELSE /\ req' = Request("auth.register", form, 0)
            /\ resp' = RegisterResponse(r)
            /\ UNCHANGED inflight
    /\ UNCHANGED <<users, roles, session, now, config, tables>>

\* POST /auth/register, from User.create on
RegisterCommit(w) ==
    LET r == register_create(users, inflight[w], now) IN
    /\ inflight[w] # NoForm
    /\ inflight' = [inflight EXCEPT ![w] = NoForm]
    /\ req' = Request("auth.register", inflight[w], 0)
    /\ users' = r.users
    /\ resp' = RegisterResponse(r)
    /\ UNCHANGED <<roles, session, now, config, tables>>

ConcForms ==
    FlowForms \cup
    {[email |-> EmailA, password |-> PwOther, confirm_password |-> PwOther, name |-> NameN],
     [email |-> EmailA, password |-> PwShort, confirm_password |-> PwShort, name |-> NameN]}

NextConc ==
    \/ SeedRoles
    \/ \E w \in Workers, form \in ConcForms : RegisterCheck(w, form)
    \/ \E w \in Workers : RegisterCommit(w)

SpecConc == Init /\ [][NextConc]_vars

----------------------------------------------------------------------------
(* Roles of a user: a database with the four system roles, two more roles   *)
(* created with Role.create, and one user created without roles             *)

MaxRoles == 3

CustomRoleNames == {"guest", "mentor"}

OneUser(roleNames) ==
    Put(NoUsers, 1, UserRow(EmailA, generate_password_hash(Pw), NameN, roleNames, 1))

InitRoles ==
    /\ users = OneUser(<<>>)
    /\ roles = SeedRoleNames \cup CustomRoleNames
    /\ session = EmptySession
    /\ req = Request("start", NoForm, 0)
    /\ resp = Response("done", "", "", "ok", FALSE)
    /\ now = 1
    /\ config = "development"
    /\ inflight = [w \in Workers |-> NoForm]
    /\ EmptyTables

NextRoles ==
    \/ \E i \in DOMAIN users, role \in roles, k \in 1..MaxRoles :
        /\ Len(users[i].roles) < MaxRoles
        /\ AddRole(i, role, k)
    \/ \E i \in DOMAIN users, role \in roles : RemoveRole(i, role)
    \/ \E i \in DOMAIN users : ToDict(i)

SpecRoles == InitRoles /\ [][NextRoles]_vars

----------------------------------------------------------------------------
(* Sessions and dashboards: the application created under a configuration   *)
(* name, over a database that holds the roles and one user whose roles are  *)
(* those of a seeded user, none, or a role outside the four                 *)

ConfigNames == {"development", "production"}

DashRoleLists ==
    {<<>>, <<"superuser">>, <<"admin">>, <<"team_lead">>, <<"doorholder">>,
     <<"admin", "team_lead">>, <<"guest">>}

InitDash ==
    /\ \E roleNames \in DashRoleLists : users = OneUser(roleNames)
    /\ roles = SeedRoleNames \cup {"guest"}
    /\ session = EmptySession
    /\ req = Request("start", NoForm, 0)
    /\ resp = Response("done", "", "", "ok", FALSE)
    /\ now = 1
    /\ config \in ConfigNames
    /\ inflight = [w \in Workers |-> NoForm]
    /\ EmptyTables

NextDash ==
    \/ \E email \in {None, EmailA, EmailB}, password \in {None, Pw, PwOther} :
        Login(email, password)
    \/ Logout
    \/ \E user_id \in 1..2 : QuickLogin(user_id)
    \/ \E route \in DashboardRoutes : Dashboard(route)
    \/ DashboardIndex
    \/ \E i \in DOMAIN users, role \in roles : RemoveRole(i, role)
    \/ \E i \in DOMAIN users : Deactivate(i)
    \/ \E i \in DOMAIN users : Activate(i)
    \/ \E i \in DOMAIN users : UserDelete(i)

SpecDash == InitDash /\ [][NextDash]_vars

----------------------------------------------------------------------------
(* Claims about authenticate_user and register_new_user *)

\* The stored user the login request names, 0 for none
LoginUser == get_by_email(users, req.form.email)

LoginMatches ==
    /\ LoginUser # 0
    /\ check_password_hash(users[LoginUser].password_hash, req.form.password)

LoginGiven == ~Falsy(req.form.email) /\ ~Falsy(req.form.password)

\* authenticate_user succeeds iff the user exists, is active and the password
\* matches, and fails with a ValueError otherwise
LoginSucceedsIff ==
    /\ resp.exc = "ok" <=> (LoginMatches /\ users[LoginUser].is_active)
    /\ resp.exc # "ok" => resp.exc = "ValueError"

\* C1 as stated: authenticate_user succeeds iff a user with that email exists,
\* is active and the password matches; an unknown email and a wrong password
\* both get the generic message, and an inactive account gets the 'inactive'
\* message.  (Read for a login that gives both an email and a password.)
C1_Original ==
    (req.route = "auth.login" /\ LoginGiven) =>
        /\ LoginSucceedsIff
        /\ LoginUser = 0 => resp.flash = MsgInvalid
        /\ (LoginUser # 0 /\ ~LoginMatches /\ users[LoginUser].is_active)
                => resp.flash = MsgInvalid
        /\ (LoginUser # 0 /\ ~users[LoginUser].is_active) => resp.flash = MsgInactive

\* C1 amended: authenticate_user succeeds iff a user with that email exists, is
\* active and the password matches.  When both an email and a password are
\* given, an unknown email and a wrong password (for an active or an inactive
\* account alike) get the same generic message, and an inactive account gets
\* the distinct 'inactive' message only when the password matches.  A blank
\* email or password gets 'Email and password are required'.
C1_Authenticate ==
    req.route = "auth.login" =>
        /\ LoginSucceedsIff
        /\ ~LoginGiven => resp.flash = MsgRequired
        /\ (LoginGiven /\ LoginUser = 0) => resp.flash = MsgInvalid
        /\ (LoginGiven /\ LoginUser # 0 /\ ~LoginMatches) => resp.flash = MsgInvalid
        /\ (LoginMatches /\ ~users[LoginUser].is_active) => resp.flash = MsgInactive
        /\ MsgInactive # MsgInvalid

\* An inactive account was refused with the 'inactive' message, the password
\* being right
C1_Witness ==
    /\ req.route = "auth.login"
    /\ LoginMatches
    /\ ~users[LoginUser].is_active
    /\ resp.flash = MsgInactive

\* A form the claim calls valid: an email with '@' and '.', a name, and a
\* password of at least 8 characters that equals its confirmation
ValidForm(f) ==
    /\ ~IsNone(f.email) /\ ~IsNone(f.name) /\ ~IsNone(f.password)
    /\ Contains(Strip(f.email), "@") /\ Contains(Strip(f.email), ".")
    /\ Strip(f.name) # <<>>
    /\ Len(f.password) >= MinPasswordLen
    /\ f.password = f.confirm_password

WithEmail(us, email) == {i \in DOMAIN us : us[i].email = email}

UniqueEmails == \A i, j \in DOMAIN users : users[i].email = users[j].email => i = j

\* A step that registers a valid form: the first call for an email succeeds
\* and stores one user, a later one fails with 'Email already registered'
\* and stores nothing
RegistersOnce ==
    IF WithEmail(users, Strip(req'.form.email)) = {}
    THEN /\ resp'.exc = "ok"
         /\ Cardinality(WithEmail(users', Strip(req'.form.email))) = 1
    ELSE /\ resp'.exc = "ValueError"
         /\ resp'.flash = MsgTaken
         /\ users' = users

\* C2 as stated: for every valid form, the first register call for an email
\* succeeds and every later call with the same email fails with 'Email
\* already registered'; at most one user per email is ever stored.
C2_Original ==
    /\ []UniqueEmails
    /\ [][(req'.route = "auth.register" /\ ValidForm(req'.form)) => RegistersOnce]_vars

\* C2 amended: once the default 'doorholder' role is stored, for every valid
\* form the first register call for an email succeeds and every later call
\* with the same email fails with 'Email already registered'; at most one
\* user per email is ever stored.  (Without the role every call fails.)
C2_RegisterOnce ==
    /\ []UniqueEmails
    /\ [][(req'.route = "auth.register" /\ ValidForm(req'.form) /\ "doorholder" \in roles)
            => RegistersOnce]_vars

\* A second registration of a stored email, written with spaces around it
\* this time, was refused
C2_Witness ==
    /\ req.route = "auth.register"
    /\ ValidForm(req.form)
    /\ req.form.email = EmailAPadded
    /\ resp.flash = MsgTaken
    /\ Cardinality(WithEmail(users, Strip(req.form.email))) = 1

\* Blank, for a field the code strips: missing, empty or spaces only; for the
\* password, which it does not strip: missing or empty
Blank(s) == IsNone(s) \/ Strip(s) = <<>>

AcceptableForm(f, us) ==
    /\ ~Blank(f.email) /\ ~Falsy(f.password) /\ ~Blank(f.name)
    /\ Contains(Strip(f.email), "@") /\ Contains(Strip(f.email), ".")
    /\ f.password = f.confirm_password
    /\ Len(f.password) >= MinPasswordLen
    /\ WithEmail(us, Strip(f.email)) = {}

\* C3: with the 'doorholder' role present, register_new_user succeeds iff
\* email, password and name are non-blank, the email has '@' and '.', the
\* password equals its confirmation and has at least 8 characters, and no
\* user has the email; every other input fails with a ValueError.
C3_RegisterIff ==
    [][(req'.route = "auth.register" /\ "doorholder" \in roles) =>
        /\ resp'.exc = "ok" <=> AcceptableForm(req'.form, users)
        /\ ~AcceptableForm(req'.form, users) => resp'.exc = "ValueError"]_vars

\* The user a successful registration stored
Registered == get_by_email(users, Strip(req.form.email))

\* C5: after a successful register_new_user, get_by_email finds the user,
\* active and with the role set {doorholder}; a login that follows fails with
\* a wrong password and succeeds with the right one, setting last_login.
C5_RegisterThenLogin ==
    /\ (req.route = "auth.register" /\ resp.exc = "ok") =>
        /\ Registered # 0
        /\ users[Registered].is_active
        /\ get_role_names(users[Registered]) = <<"doorholder">>
        /\ users[Registered].last_login = NoTime
        /\ \A password \in LoginPasswords :
            LET r == authenticate_user(users, Strip(req.form.email), password, now) IN
            IF password = req.form.password
            THEN r.kind = "ok" /\ r.users[Registered].last_login = now /\ now # NoTime
            ELSE r.kind = "ValueError" /\ r.users = users
    /\ (req.route = "auth.login" /\ resp.exc = "ok") =>
        /\ users[session.user_id].last_login \in 1..now
        /\ users[session.user_id].email = req.form.email

\* The registered user logged in and last_login is set
C5_Witness ==
    /\ req.route = "auth.login"
    /\ resp.exc = "ok"
    /\ session.user_id \in DOMAIN users
    /\ get_role_names(users[session.user_id]) = <<"doorholder">>
    /\ users[session.user_id].last_login = now
    /\ now > 1

\* C4: when two registrations with the same email both pass the 'email
\* already exists' check before either commits, one user is stored and the
\* rejected registration ends as a validation error (a flash message and a
\* redirect to the register form), not as an unhandled exception.
C4_ConcurrentRegister ==
    /\ UniqueEmails
    /\ (req.route = "auth.register" /\ resp.exc # "ok") =>
        /\ resp.status = "redirect"
        /\ resp.target = "auth.register_page"
        /\ resp.exc = "ValueError"

----------------------------------------------------------------------------
(* Claims about roles, sessions and dashboards *)

\* The highest role of a set that holds one of the four, by the fixed order
\* superuser > admin > team_lead > doorholder
Highest(names) ==
    IF "superuser" \in names THEN "superuser"
    ELSE IF "admin" \in names THEN "admin"
    ELSE IF "team_lead" \in names THEN "team_lead"
    ELSE "doorholder"

PrimaryRoleOf(roleNames) ==
    LET names == {roleNames[k] : k \in 1..Len(roleNames)} IN
    IF names \cap SeedRoleNames # {} THEN Highest(names)
    ELSE IF names = {} THEN NoRole
    ELSE roleNames[1]

\* C6: get_primary_role returns the highest-priority held role under
\* superuser > admin > team_lead > doorholder for every role set with one of
\* the four ({admin, team_lead} gives admin, {team_lead, doorholder} gives
\* team_lead), none for the empty set, and the first held role when the user
\* holds only roles outside the four.
C6_PrimaryRole ==
    /\ \A i \in DOMAIN users :
        get_primary_role(users[i]) = PrimaryRoleOf(get_role_names(users[i]))
    /\ \A i \in DOMAIN users :
        /\ Held(users[i]) = {"admin", "team_lead"} => get_primary_role(users[i]) = "admin"
        /\ Held(users[i]) = {"team_lead", "doorholder"}
                => get_primary_role(users[i]) = "team_lead"
        /\ Held(users[i]) = {} => get_primary_role(users[i]) = NoRole
    /\ req.route = "User.to_dict" =>
        resp.data.primary_role = PrimaryRoleOf(resp.data.roles)

\* to_dict answered for a user who holds team_lead before admin, and a role
\* outside the four
C6_Witness ==
    /\ req.route = "User.to_dict"
    /\ resp.data.roles = <<"guest", "team_lead", "admin">>
    /\ resp.data.primary_role = "admin"

\* The allow-list of each role-gated route
AllowList(route) ==
    CASE route = "dashboard.superuser" -> {"superuser"}
      [] route = "dashboard.admin" -> {"admin", "superuser"}
      [] route = "dashboard.team_lead" -> {"team_lead", "admin", "superuser"}

HasIdentity(sess) == "user_id" \in sess.keys

\* C7: a role-gated dashboard is rendered only when the session holds a
\* user_id and its roles meet the route's allow-list; without a session
\* identity the request is redirected to the login page, with one and no
\* allowed role to /dashboard/, and in neither case are the data computed.
C7_RoleGate ==
    req.route \in GatedRoutes =>
        /\ resp.status = "render" =>
            /\ HasIdentity(session)
            /\ SessionRoles(session) \cap AllowList(req.route) # {}
        /\ ~HasIdentity(session) =>
            /\ resp.status = "redirect" /\ resp.target = "auth.login_page"
            /\ ~resp.computed
        /\ (HasIdentity(session) /\ SessionRoles(session) \cap AllowList(req.route) = {}) =>
            /\ resp.status = "redirect" /\ resp.target = "dashboard.index"
            /\ ~resp.computed
        /\ (HasIdentity(session) /\ SessionRoles(session) \cap AllowList(req.route) # {}) =>
            resp.computed

\* A team lead was sent from /dashboard/admin to the default dashboard
C7_Witness ==
    /\ req.route = "dashboard.admin"
    /\ session.user_roles = <<"team_lead">>
    /\ resp.target = "dashboard.index"
    /\ ~resp.computed

\* C8: POST /auth/login sets the four identity fields together, to the
\* values of the authenticated user, only when authentication succeeds; when
\* it fails the session is left as it was and the response is a message and
\* a redirect to the login form.
C8_LoginSession ==
    [][req'.route = "auth.login" =>
        LET i == get_by_email(users, req'.form.email) IN
        IF resp'.exc = "ok"
        THEN /\ IdentityKeys \subseteq session'.keys
             /\ session'.user_id = i
             /\ session'.user_name = users[i].name
             /\ session'.user_roles = get_role_names(users[i])
             /\ session'.user_primary_role = PrimaryRoleOf(get_role_names(users[i]))
        ELSE /\ session' = session
             /\ resp'.status = "redirect"
             /\ resp'.target = "auth.login_page"
             /\ resp'.flash # ""]_vars

\* A login failed in a session that holds an identity, which is still there
C8_Witness ==
    /\ req.route = "auth.login"
    /\ resp.exc = "ValueError"
    /\ session.keys = IdentityKeys
    /\ session.user_roles = <<"admin", "team_lead">>
    /\ session.user_primary_role = "admin"

IsDashboardRoute(route) == route \in DashboardRoutes \cup {"dashboard.index"}

\* C9: after POST /auth/logout no identity field remains, and every
\* /dashboard request is redirected to the login page until a login (by
\* password or quick-login) succeeds.
C9_Logout ==
    /\ [][req'.route = "auth.logout" => session'.keys \cap IdentityKeys = {}]_vars
    /\ [][(session.keys \cap IdentityKeys = {} /\ IsDashboardRoute(req'.route)) =>
            /\ resp'.status = "redirect"
            /\ resp'.target = "auth.login_page"
            /\ ~resp'.computed]_vars
    /\ [][(session.keys \cap IdentityKeys = {} /\ session'.keys \cap IdentityKeys # {}) =>
            /\ req'.route \in {"auth.login", "auth.quick_login"}
            /\ resp'.exc = "ok"]_vars

\* After a login and a logout, a dashboard request went to the login page
C9_Witness ==
    /\ IsDashboardRoute(req.route)
    /\ session = EmptySession
    /\ resp.target = "auth.login_page"
    /\ \E i \in DOMAIN users : users[i].last_login # NoTime

\* C10: outside development builds POST /auth/quick-login/<user_id> is
\* disabled: no request to it establishes a session identity.
C10_QuickLoginDisabled ==
    (config # "development" /\ req.route = "auth.quick_login") =>
        /\ resp.exc # "ok"
        /\ resp.target # "dashboard.index"

----------------------------------------------------------------------------
(* The life of an enrollment: a database with one user, two courses and the *)
(* enrollments of the user in them, as Enrollment.create stores them        *)

Scores == {NoScore, 0, 90}

InitEnroll ==
    /\ users = OneUser(<<"doorholder">>)
    /\ roles = SeedRoleNames
    /\ session = EmptySession
    /\ req = Call("start", 0, 0)
    /\ resp = Returns("ok", 0)
    /\ now = 1
    /\ config = "development"
    /\ inflight = [w \in Workers |-> NoForm]
    /\ enrollments =
        Enrollment_create(Enrollment_create(NoRows, 1, 1, NoTeam).rows, 1, 2, NoTeam).rows
    /\ certificates = NoRows
    /\ team_members = NoRows
    /\ sessions = NoRows
    /\ courses = TwoCourses
    /\ lessons = NoRows
    /\ pending = [w \in Workers |-> NoPending]
    /\ lesson_progress = NoRows
    /\ looking = [w \in Workers |-> NoLook]

NextEnroll ==
    \/ \E i \in DOMAIN enrollments : EnrollmentStart(i)
    \/ \E i \in DOMAIN enrollments, score \in Scores : EnrollmentComplete(i, score)
    \/ \E i \in DOMAIN enrollments : EnrollmentExpire(i)
    \/ Tick

SpecEnroll == InitEnroll /\ [][NextEnroll]_vars

----------------------------------------------------------------------------
(* The enrollments table: rows created, moved to another team and deleted,  *)
(* from a database that holds one user, two courses and no other row        *)

TripleUsers == {1}
TripleCourses == {1, 2}
TripleTeams == {NoTeam, 1, 2}

InitModels ==
    /\ users = OneUser(<<"doorholder">>)
    /\ roles = SeedRoleNames
    /\ session = EmptySession
    /\ req = Call("start", 0, 0)
    /\ resp = Returns("ok", 0)
    /\ now = 1
    /\ config = "development"
    /\ inflight = [w \in Workers |-> NoForm]
    /\ enrollments = NoRows
    /\ certificates = NoRows
    /\ team_members = NoRows
    /\ sessions = NoRows
    /\ courses = TwoCourses
    /\ lessons = NoRows
    /\ pending = [w \in Workers |-> NoPending]
    /\ lesson_progress = NoRows
    /\ looking = [w \in Workers |-> NoLook]

NextTriple ==
    \/ \E user_id \in TripleUsers, course_id \in TripleCourses, team_id \in TripleTeams :
        EnrollmentCreate(user_id, course_id, team_id)
    \/ \E i \in DOMAIN enrollments, key \in {"team_id", "team"}, value \in TripleTeams :
        EnrollmentUpdate(i, key, value)
    \/ \E i \in DOMAIN enrollments : EnrollmentDelete(i)

SpecTriple == InitModels /\ [][NextTriple]_vars

----------------------------------------------------------------------------
(* Claims about enrollments *)

LifeCalls == {"Enrollment.start", "Enrollment.complete", "Enrollment.expire"}

\* C11: over any sequence of start(), complete() and expire() calls, a
\* completed enrollment never goes back to in_progress and never becomes
\* expired, and an expired enrollment never goes back to in_progress
\* (complete() is allowed from any state).
C11_StateMachine ==
    [][req'.route \in LifeCalls =>
        \A i \in DOMAIN enrollments :
            /\ enrollments[i].status = "completed" =>
                enrollments'[i].status \notin {"in_progress", "expired"}
            /\ enrollments[i].status = "expired" =>
                enrollments'[i].status # "in_progress"]_vars

\* C12: start() sets started_at only the first time it is called: a call on
\* an enrollment that has a started_at, at whatever later time, leaves it as
\* the first call set it, and the status is in_progress after each call.
C12_StartOnce ==
    [][(req'.route = "Enrollment.start" /\ now' = now) =>
        LET i == req'.user_id IN
        /\ enrollments'[i].status = "in_progress"
        /\ enrollments[i].started_at # NoTime =>
            enrollments'[i].started_at = enrollments[i].started_at
        /\ enrollments[i].started_at = NoTime => enrollments'[i].started_at = now]_vars

\* start() was called again after a complete() that came later than the
\* first start(): started_at is still the time of the first call
C12_Witness ==
    /\ req.route = "Enrollment.start"
    /\ enrollments[req.user_id].status = "in_progress"
    /\ enrollments[req.user_id].started_at # NoTime
    /\ enrollments[req.user_id].started_at < enrollments[req.user_id].completed_at
    /\ enrollments[req.user_id].started_at < now

\* C13: complete(score), called in any status, sets status to completed and
\* completed_at to the current time; a score that is given is stored (90 as
\* 90, 0 as 0), and without one the stored score is unchanged.
C13_Complete ==
    [][(req'.route = "Enrollment.complete" /\ now' = now) =>
        LET i == req'.user_id IN
        /\ enrollments'[i].status = "completed"
        /\ enrollments'[i].completed_at = now
        /\ req'.arg = 90 => enrollments'[i].score = 90
        /\ req'.arg = 0 => enrollments'[i].score = 0
        /\ req'.arg = NoScore => enrollments'[i].score = enrollments[i].score
        /\ enrollments'[i].started_at = enrollments[i].started_at]_vars

\* complete(score=0) was called on an enrollment that was never started: it
\* is completed, at the time of the call, with score 0
C13_Witness ==
    /\ req.route = "Enrollment.complete"
    /\ req.arg = 0
    /\ enrollments[req.user_id].status = "completed"
    /\ enrollments[req.user_id].score = 0
    /\ enrollments[req.user_id].started_at = NoTime
    /\ enrollments[req.user_id].completed_at = now
    /\ now > 1

SameTriple(a, b) ==
    a.user_id = b.user_id /\ a.course_id = b.course_id /\ a.team_id = b.team_id

\* C18: after any sequence of Enrollment.create, update and delete, no two
\* stored enrollments have the same (user, course, team) triple, the team
\* possibly absent; a create for a stored triple fails with a uniqueness
\* violation.
C18_UniqueTriple ==
    /\ \A i, j \in DOMAIN enrollments :
        SameTriple(enrollments[i], enrollments[j]) => i = j
    /\ (req.route = "Enrollment.create" /\ resp.exc = "ok") =>
        Cardinality({i \in DOMAIN enrollments :
            <<enrollments[i].user_id, enrollments[i].course_id, enrollments[i].team_id>>
                = req.arg}) <= 1

----------------------------------------------------------------------------
(* Certificates issued one after the other, and by concurrent workers        *)

TokenBytes == {<<0, 0, 0, 10>>, <<171, 205, 239, 9>>}

Draws == {<<a>> : a \in TokenBytes} \cup {<<a, b>> : a, b \in TokenBytes}

NextCert ==
    \/ \E expiration_months \in {0, 1}, draws \in Draws :
        CertificateCreate(1, 1, expiration_months, draws)
    \/ Tick

SpecCert == InitModels /\ [][NextCert]_vars

NextCertConc ==
    \/ \E w \in Workers, draws \in Draws : CertificateGenerate(w, 1, 1, 0, draws)
    \/ \E w \in Workers : CertificateCommit(w)
    \/ Tick

SpecCertConc == InitModels /\ [][NextCertConc]_vars

----------------------------------------------------------------------------
(* Claims about certificates *)

DigitChars == {"0", "1", "2", "3", "4", "5", "6", "7", "8", "9"}
UpperHexChars == DigitChars \cup {"A", "B", "C", "D", "E", "F"}

\* CERT-<8 digits>-<8 uppercase hex digits>
MatchesPattern(s) ==
    /\ Len(s) = 22
    /\ SubSeq(s, 1, 5) = <<"C", "E", "R", "T", "-">>
    /\ \A i \in 6..13 : s[i] \in DigitChars
    /\ s[14] = "-"
    /\ \A i \in 15..22 : s[i] \in UpperHexChars

UniqueNumbers ==
    \A i, j \in DOMAIN certificates :
        certificates[i].certificate_number = certificates[j].certificate_number => i = j

\* C14: certificate numbers have the form CERT-<8 digits>-<8 uppercase hex
\* digits>; generate_certificate_number never returns a stored number, so a
\* Certificate.create that follows others never fails and no two stored
\* certificates share a number.
C14_CertificateNumbers ==
    /\ [](UniqueNumbers /\ \A i \in DOMAIN certificates :
                            MatchesPattern(certificates[i].certificate_number))
    /\ [][(req'.route = "Certificate.create" /\ now' = now) =>
            /\ resp'.exc = "ok"
            /\ resp'.value \in DOMAIN certificates' \ DOMAIN certificates
            /\ certificates'[resp'.value].certificate_number \in
                    {cert_number(now, req'.arg[k]) : k \in 1..Len(req'.arg)}
            /\ get_by_number(certificates,
                             certificates'[resp'.value].certificate_number) = 0
            /\ \A i \in DOMAIN certificates : certificates'[i] = certificates[i]]_vars

\* The second certificate of a day was created from a second draw, the
\* first draw being the number of the certificate stored before it
C14_Witness ==
    /\ req.route = "Certificate.create"
    /\ Len(req.arg) = 2
    /\ req.arg[1] # req.arg[2]
    /\ resp.value = 2
    /\ 1 \in DOMAIN certificates
    /\ certificates[1].certificate_number = cert_number(now, req.arg[1])
    /\ certificates[2].certificate_number = cert_number(now, req.arg[2])

\* C15: when two concurrent Certificate.create calls generate the same
\* unused number, the store never holds two certificates with one number,
\* and the call that loses ends with a validation error, not with the raw
\* exception of the storage layer.
C15_ConcurrentCertificates ==
    /\ UniqueNumbers
    /\ (req.route = "Certificate.create" /\ resp.exc # "ok") => resp.exc = "ValueError"

----------------------------------------------------------------------------
(* Team memberships created, promoted, demoted and deleted *)

MemberTeams == {1, 2}
MemberUsers == {1, 2}

NextTeam ==
    \/ \E team_id \in MemberTeams, user_id \in MemberUsers, is_team_lead \in BOOLEAN :
        TeamMemberCreate(team_id, user_id, is_team_lead)
    \/ \E i \in DOMAIN team_members : TeamMemberDelete(i)
    \/ \E i \in DOMAIN team_members, flag \in BOOLEAN : TeamMemberSetLead(i, flag)

SpecTeam == InitModels /\ [][NextTeam]_vars

\* C16: creating a TeamMember for a (team, user) pair that has a membership
\* fails with a uniqueness violation and leaves the existing membership, its
\* is_team_lead flag included, unchanged; over any sequence of create,
\* delete, promote and demote there is at most one TeamMember per pair.
C16_UniqueMembership ==
    /\ [](\A i, j \in DOMAIN team_members :
            (team_members[i].team_id = team_members[j].team_id
             /\ team_members[i].user_id = team_members[j].user_id) => i = j)
    /\ [][req'.route = "TeamMember.create" =>
            IF \E i \in DOMAIN team_members :
                    <<team_members[i].team_id, team_members[i].user_id>>
                        = <<req'.arg[1], req'.arg[2]>>
            THEN /\ resp'.exc = "IntegrityError"
                 /\ team_members' = team_members
            ELSE /\ resp'.exc = "ok"
                 /\ team_members'[resp'.value] =
                        TeamMemberRow(req'.arg[1], req'.arg[2], req'.arg[3])]_vars

\* A second create(team, user) for the pair of a promoted member, in a table
\* with another member of the team, was refused: the member is still lead
C16_Witness ==
    /\ req.route = "TeamMember.create"
    /\ resp.exc = "IntegrityError"
    /\ req.arg[3] = FALSE
    /\ \E i \in DOMAIN team_members :
        /\ team_members[i].team_id = req.arg[1]
        /\ team_members[i].user_id = req.arg[2]
        /\ team_members[i].is_team_lead
    /\ \E i \in DOMAIN team_members :
        team_members[i].team_id = req.arg[1] /\ team_members[i].user_id # req.arg[2]

----------------------------------------------------------------------------
(* Login tokens created, looked up, extended and deleted while time passes  *)

Tokens == {"t1", "t2"}
Durations == {0, 1, 2}

NextSession ==
    \/ \E token \in Tokens, expires_in_hours \in Durations :
        SessionCreate(1, token, expires_in_hours)
    \/ \E token \in Tokens : GetValidSession(token)
    \/ \E i \in DOMAIN sessions : IsValid(i)
    \/ \E i \in DOMAIN sessions, hours \in Durations : SessionExtend(i, hours)
    \/ \E i \in DOMAIN sessions : SessionDelete(i)
    \/ CleanupExpired
    \/ Tick

SpecSession == InitModels /\ [][NextSession]_vars

\* The stored sessions with a token that have not reached their expiry
ValidWithToken(token) ==
    {i \in DOMAIN sessions : sessions[i].token = token /\ now < sessions[i].expires_at}

\* C17: is_valid() is true exactly when now < expires_at, and
\* get_valid_session(token) returns a session iff one with that token is
\* stored and valid: a session at or past its expiry, or a deleted one, is
\* never returned.
C17_ValidSession ==
    /\ [][(req'.route = "Session.is_valid" /\ now' = now) =>
            resp'.value = (now < sessions[req'.user_id].expires_at)]_vars
    /\ [][(req'.route = "Session.get_valid_session" /\ now' = now) =>
            /\ resp'.value # 0 <=> ValidWithToken(req'.arg) # {}
            /\ resp'.value # 0 => resp'.value \in ValidWithToken(req'.arg)]_vars

\* get_valid_session returned None for the token of a stored session whose
\* expiry is the current instant, after time has passed
C17_Witness ==
    /\ req.route = "Session.get_valid_session"
    /\ resp.value = 0
    /\ now > 1
    /\ \E i \in DOMAIN sessions : sessions[i].token = req.arg /\ sessions[i].expires_at = now

\* C25: immediately after Session.cleanup_expired returns, at the same clock
\* value, every stored session satisfies is_valid(), every session that
\* satisfied is_valid() before the call is stored unchanged, and the count
\* returned is the number of sessions removed.
C25_CleanupExpired ==
    [][(req'.route = "Session.cleanup_expired" /\ now' = now) =>
        /\ \A i \in DOMAIN sessions' : is_valid(sessions'[i], now)
        /\ \A i \in DOMAIN sessions :
                is_valid(sessions[i], now) =>
                    i \in DOMAIN sessions' /\ sessions'[i] = sessions[i]
        /\ resp'.value = Cardinality(DOMAIN sessions \ DOMAIN sessions')]_vars

\* C29: Session.extend(hours) sets the expiry of the session to the current
\* time plus hours, whatever the expiry was, and changes nothing else: with
\* hours > 0 the session is valid right after the call, also when it had
\* expired.
C29_Extend ==
    [][(req'.route = "Session.extend" /\ now' = now) =>
        /\ sessions' = [sessions EXCEPT ![req'.user_id].expires_at = now + req'.arg]
        /\ req'.arg > 0 => is_valid(sessions'[req'.user_id], now)
        /\ resp'.value = req'.user_id]_vars

\* A session was extended by one hour after time had passed and is valid
C29_Witness ==
    /\ req.route = "Session.extend"
    /\ req.arg = 1
    /\ now > 1
    /\ req.user_id \in DOMAIN sessions
    /\ sessions[req.user_id].expires_at = now + 1
    /\ is_valid(sessions[req.user_id], now)

----------------------------------------------------------------------------
(* The two courses deleted, with lessons, enrollments and certificates      *)
(* created for the courses stored                                           *)

NextCourse ==
    \/ \E c \in DOMAIN courses : LessonCreate(c)
    \/ \E c \in DOMAIN courses :
        /\ NextId(enrollments) <= MaxChildren
        /\ EnrollmentCreate(1, c, NoTeam)
    \/ \E c \in DOMAIN courses, bytes \in TokenBytes :
        CertificateCreate(1, c, 0, <<bytes>>)
    \/ \E c \in DOMAIN courses : CourseDelete(c)

SpecCourse == InitModels /\ [][NextCourse]_vars


\* C19: Course.delete() is a cascading hard delete: after it no Lesson,
\* Enrollment or Certificate that referenced the deleted course remains, and
\* the lessons, enrollments and certificates of every other course are
\* unchanged.
C19_CascadeDelete ==
    [][req'.route = "Course.delete" =>
        LET c == req'.user_id IN
        /\ c \notin DOMAIN courses'
        /\ OfCourse(lessons', c) = {}
        /\ OfCourse(enrollments', c) = {}
        /\ OfCourse(certificates', c) = {}
        /\ \A d \in DOMAIN courses \ {c} :
            /\ d \in DOMAIN courses' /\ courses'[d] = courses[d]
            /\ OfCourse(lessons', d) = OfCourse(lessons, d)
            /\ OfCourse(enrollments', d) = OfCourse(enrollments, d)
            /\ OfCourse(certificates', d) = OfCourse(certificates, d)
            /\ \A i \in OfCourse(lessons, d) : lessons'[i] = lessons[i]
            /\ \A i \in OfCourse(enrollments, d) : enrollments'[i] = enrollments[i]
            /\ \A i \in OfCourse(certificates, d) : certificates'[i] = certificates[i]]_vars

\* A course was deleted that had a certificate, while a lesson, an enrollment
\* and a certificate of the other course are still stored
C19_Witness ==
    /\ req.route = "Course.delete"
    /\ 2 \in DOMAIN certificates /\ 1 \notin DOMAIN certificates
    /\ \E d \in DOMAIN courses :
        /\ OfCourse(lessons, d) # {}
        /\ OfCourse(enrollments, d) # {}
        /\ OfCourse(certificates, d) # {}

----------------------------------------------------------------------------
(* The two forms posted with fields absent, empty or malformed *)

FieldForms ==
    [email : {None, <<>>, EmailA, <<"a", "@", "x">>},
     password : {None, <<>>, PwShort, Pw},
     confirm_password : {None, Pw},
     name : {None, <<>>, NameN}]

NextForms ==
    \/ SeedRoles
    \/ \E form \in FieldForms : Register(form)
    \/ \E email \in LoginEmails, password \in LoginPasswords : Login(email, password)

SpecForms == Init /\ [][NextForms]_vars

\* The form a request came from
OriginatingForm(route) ==
    IF route = "auth.login" THEN "auth.login_page" ELSE "auth.register_page"

\* C20: for every combination of form fields absent, empty or malformed,
\* POST /auth/login and POST /auth/register end with a message to the user
\* and a redirect back to the originating form, never with an unhandled
\* exception.
C20_NeverFatal ==
    req.route \in {"auth.login", "auth.register"} =>
        /\ resp.status = "redirect"
        /\ resp.exc # "ok" =>
            /\ resp.exc = "ValueError"
            /\ resp.flash # ""
            /\ resp.target = OriginatingForm(req.route)


----------------------------------------------------------------------------
(* The dashboards over a database with rows: one doorholder, two courses,   *)
(* enrollments of the user and of a user id that is not stored, and         *)
(* certificates of the user                                                 *)

BoardUsers == {1, 2}

NextBoard ==
    \/ \E password \in {Pw, PwOther} : Login(EmailA, password)
    \/ Logout
    \/ \E user_id \in BoardUsers :
        /\ NextId(enrollments) <= MaxChildren + 1
        /\ EnrollmentCreate(user_id, 1, NoTeam)
    \/ \E i \in DOMAIN enrollments : EnrollmentStart(i)
    \/ \E bytes \in TokenBytes : CertificateCreate(1, 1, 0, <<bytes>>)
    \/ \E route \in DashboardRoutes : Dashboard(route)
    \/ DashboardIndex
    \/ \E route \in DashboardRoutes, user_id \in BoardUsers : DashboardData(route, user_id)

SpecBoard == InitModels /\ [][NextBoard]_vars

\* A call of get_doorholder_dashboard_data
DoorholderCall(r) == r.route = "get_dashboard_data" /\ r.arg = "dashboard.doorholder"

\* C21: get_doorholder_dashboard_data returns, for a stored user, one entry
\* per enrollment of the user with the enrollment's status, the counts of the
\* user's enrollments, of the completed and of the in-progress ones, and one
\* entry per certificate of the user; for a user id that is not stored it
\* returns empty lists and zero counts.
C21_DoorholderData ==
    [][DoorholderCall(req') =>
        /\ resp'.exc = "ok"
        /\ IF req'.user_id \in DOMAIN users
           THEN /\ resp'.value.enrollments =
                      {[id |-> i, status |-> enrollments[i].status] :
                          i \in OfUser(enrollments, req'.user_id)}
                /\ resp'.value.progress.total_courses =
                      Cardinality(OfUser(enrollments, req'.user_id))
                /\ resp'.value.progress.completed =
                      Cardinality({i \in OfUser(enrollments, req'.user_id) :
                                      enrollments[i].status = "completed"})
                /\ resp'.value.progress.in_progress =
                      Cardinality({i \in OfUser(enrollments, req'.user_id) :
                                      enrollments[i].status = "in_progress"})
                /\ resp'.value.certificates =
                      {[id |-> i] : i \in OfUser(certificates, req'.user_id)}
           ELSE resp'.value = NoBoard]_vars

\* What the data function of a dashboard route gives in the current state
DataOf(route) ==
    get_dashboard_data(route, users, enrollments, certificates, courses, session.user_id)

----------------------------------------------------------------------------
(* Claims about what a call leaves as it was *)

\* C23 as stated: authenticate_user changes the store only when it succeeds,
\* and then only the last_login of the user it authenticated; a login that
\* fails for any reason leaves every stored row as it was.
C23_Original ==
    [][(req'.route = "auth.login" /\ now' = now) =>
        /\ UNCHANGED <<roles, tables>>
        /\ IF resp'.exc = "ok"
           THEN /\ session'.user_id \in DOMAIN users
                /\ users' = [users EXCEPT ![session'.user_id].last_login = now]
           ELSE users' = users]_vars

\* C23 amended: authenticate_user changes the store only when it succeeds,
\* and then only the row of the user it authenticated, in which last_login
\* and the updated_at column are set to the time of the login; a login that
\* fails (blank input, unknown email, wrong password, inactive account with
\* the right password) leaves every stored row as it was.
C23_LastLoginFrame ==
    [][(req'.route = "auth.login" /\ now' = now) =>
        /\ UNCHANGED <<roles, tables>>
        /\ IF resp'.exc = "ok"
           THEN /\ session'.user_id \in DOMAIN users
                /\ users' = [users EXCEPT ![session'.user_id].last_login = now,
                                          ![session'.user_id].updated_at = now]
           ELSE users' = users]_vars

\* A user registered at an earlier time logged in: last_login and updated_at
\* hold the time of the login
C23_Witness ==
    /\ req.route = "auth.login"
    /\ resp.exc = "ok"
    /\ users[session.user_id].last_login = now
    /\ users[session.user_id].updated_at = now
    /\ now > 1

\* C24: a call of get_superuser_dashboard_data, get_admin_dashboard_data,
\* get_team_lead_dashboard_data or get_doorholder_dashboard_data, whether it
\* returns or raises, leaves the users, the roles and every table as they
\* were.
C24_PureReads ==
    [][req'.route = "get_dashboard_data" =>
        /\ resp'.exc \in {"ok", "AttributeError"}
        /\ UNCHANGED <<users, roles, session, tables>>]_vars

\* A data function raised over a store that holds the user, an enrollment
\* and a certificate
C24_Witness ==
    /\ req.route = "get_dashboard_data"
    /\ resp.exc = "AttributeError"
    /\ req.user_id \in DOMAIN users
    /\ users[req.user_id].last_login = NoTime
    /\ enrollments # NoRows
    /\ certificates # NoRows

----------------------------------------------------------------------------
(* Claims about the session after the store has changed *)

\* The session holds an identity and one of the roles the route allows
Allowed(route, sess) == HasIdentity(sess) /\ SessionRoles(sess) \cap AllowList(route) # {}

\* C26: User.remove_role, User.deactivate and User.delete leave the session
\* and with it the decision of every role gate as they were, and a request
\* of a role-gated dashboard enters the view exactly when the roles stored in
\* the session at login meet the route's allow-list, whatever the store
\* holds for the user at the time of the request.
C26_SessionAuthorization ==
    /\ [][req'.route \in {"User.remove_role", "User.deactivate", "User.delete"} =>
            /\ session' = session
            /\ \A route \in GatedRoutes :
                    Allowed(route, session') <=> Allowed(route, session)]_vars
    /\ [][req'.route \in GatedRoutes =>
            (resp'.computed <=> Allowed(req'.route, session))]_vars

\* A role-gated dashboard was rendered for the session of a user who has
\* been deleted since the login
C26_Witness ==
    /\ req.route \in GatedRoutes
    /\ resp.computed
    /\ resp.status = "render"
    /\ HasIdentity(session)
    /\ session.user_id \notin DOMAIN users

----------------------------------------------------------------------------
(* Redirect chains: requests of the dashboards by the sessions that login,  *)
(* quick login and logout leave, each redirect followed by the browser      *)

NextChain ==
    \/ \E password \in {Pw, PwOther} : Login(EmailA, password)
    \/ \E user_id \in 1..2 : QuickLogin(user_id)
    \/ Logout
    \/ \E route \in DashboardRoutes : Dashboard(route)
    \/ DashboardIndex
    \/ FollowRedirect

SpecChain == InitDash /\ [][NextChain]_vars

KnownRoles == {"superuser", "admin", "team_lead", "doorholder"}

\* The most redirects a GET of the endpoint can start under the session: none
\* for a page, one for a dashboard the session may open (to the login form,
\* or to the landing page when the data fail), two for the default dashboard,
\* three for a dashboard the session may not open
RedirectsFrom(endpoint, sess) ==
    IF endpoint = "dashboard.index" THEN 2
    ELSE IF endpoint \in GatedRoutes
    THEN (IF HasIdentity(sess) /\ ~Allowed(endpoint, sess) THEN 3 ELSE 1)
    ELSE IF endpoint = "dashboard.doorholder" THEN 1
    ELSE 0

\* The most requests the browser still makes after a response
RequestsLeft(r, sess) ==
    IF r.status = "redirect" THEN 1 + RedirectsFrom(r.target, sess) ELSE 0

\* C27: every redirect the browser follows lowers the number of requests
\* left, which is at most four, so a chain of redirects started by any
\* request ends with a response that is no redirect; and the default
\* dashboard sends a session whose primary role is one of the four known
\* roles to the dashboard of that role, which the session's roles may open.
C27_RedirectsTerminate ==
    /\ [][FollowRedirect =>
            RequestsLeft(resp', session') < RequestsLeft(resp, session)]_vars
    /\ [][RequestsLeft(resp', session') <= 4]_vars
    /\ [][(req'.route = "dashboard.index" /\ HasIdentity(session)
            /\ session.user_primary_role \in KnownRoles) =>
            /\ resp'.status = "redirect"
            /\ resp'.target = "dashboard." \o session.user_primary_role
            /\ resp'.target \in GatedRoutes => Allowed(resp'.target, session)]_vars

\* The default dashboard sent a session that holds admin and team_lead, and
\* may not open the superuser's dashboard, to the admin dashboard
C27_Witness ==
    /\ req.route = "dashboard.index"
    /\ resp.status = "redirect"
    /\ resp.target = "dashboard.admin"
    /\ Allowed("dashboard.admin", session)
    /\ ~Allowed("dashboard.superuser", session)
    /\ Len(session.user_roles) = 2

----------------------------------------------------------------------------
(* Progress records got or created by the workers, for two users and two    *)
(* lessons                                                                  *)

ProgressUsers == {1, 2}
ProgressLessons == {1, 2}

NextProgress ==
    \/ \E w \in Workers, user_id \in ProgressUsers, lesson_id \in ProgressLessons :
        GetOrCreateFind(w, user_id, lesson_id)
    \/ \E w \in Workers : GetOrCreateInsert(w)

SpecProgress == InitModels /\ [][NextProgress]_vars

\* The records stored for a pair
OfPair(rows, user_id, lesson_id) ==
    {i \in DOMAIN rows : rows[i].user_id = user_id /\ rows[i].lesson_id = lesson_id}

\* A step in which a call found no record and went on to create
LookupOnly == \E w \in Workers : looking[w] = NoLook /\ looking'[w] # NoLook

\* C28: no two progress records of one (user, lesson) pair are ever stored.
\* A get_or_create call that finds a record returns it and stores nothing;
\* one that found none stores one record of its pair when none was stored in
\* the meantime, and otherwise its insert is rejected with IntegrityError
\* and the table is left as it was.
C28_GetOrCreate ==
    /\ [](\A i, j \in DOMAIN lesson_progress :
            (/\ lesson_progress[i].user_id = lesson_progress[j].user_id
             /\ lesson_progress[i].lesson_id = lesson_progress[j].lesson_id) => i = j)
    /\ [][(req'.route = "LessonProgress.get_or_create" /\ ~LookupOnly) =>
            /\ resp'.exc = "ok" =>
                    OfPair(lesson_progress', req'.user_id, req'.arg) = {resp'.value}
            /\ OfPair(lesson_progress, req'.user_id, req'.arg) # {} =>
                /\ lesson_progress' = lesson_progress
                /\ IF looking' = looking
                   THEN resp'.value \in OfPair(lesson_progress, req'.user_id, req'.arg)
                   ELSE resp'.exc = "IntegrityError"
            /\ OfPair(lesson_progress, req'.user_id, req'.arg) = {} =>
                /\ resp'.exc = "ok"
                /\ resp'.value \notin DOMAIN lesson_progress
                /\ \A i \in DOMAIN lesson_progress :
                        i \in DOMAIN lesson_progress'
                        /\ lesson_progress'[i] = lesson_progress[i]]_vars

\* The insert of a call that had found no record was rejected: another call
\* for the pair had stored its record in the meantime
C28_Witness ==
    /\ req.route = "LessonProgress.get_or_create"
    /\ resp.exc = "IntegrityError"
    /\ Cardinality(OfPair(lesson_progress, req.user_id, req.arg)) = 1

\* C30: a register_new_user call that is rejected, for whatever reason,
\* stores nothing: the users, their roles and every other table are as
\* before the call; a call that succeeds adds one row and leaves the rows
\* stored before it as they were.
C30_FailedRegisterFrame ==
    [][req'.route = "auth.register" =>
        /\ UNCHANGED <<roles, session, tables>>
        /\ resp'.exc # "ok" => users' = users
        /\ resp'.exc = "ok" =>
            /\ Cardinality(DOMAIN users') = Cardinality(DOMAIN users) + 1
            /\ \A i \in DOMAIN users : i \in DOMAIN users' /\ users'[i] = users[i]]_vars

\* A registration was rejected for the missing default role, its other
\* fields being valid, and no user is stored
C30_Witness ==
    /\ req.route = "auth.register"
    /\ resp.exc = "ValueError"
    /\ resp.flash = MsgNoRole
    /\ ValidForm(req.form)
    /\ users = NoUsers

============================================================================
